---------------------------- MODULE Spec2Model ----------------------------
(***************************************************************************)
(* A model of the Data Table widget (Orange/OrangeWidgets/Data/            *)
(* OWDataTable.py): the table adapter ExampleTableModel, and the widget    *)
(* OWDataTable with its per-connection mappings, tab strip, selection and  *)
(* commit logic.                                                           *)
(*                                                                         *)
(* Conventions.  Python's None is the record None.  Python lists are       *)
(* sequences; list positions, dataset row indices and view rows are        *)
(* 0-based as in the code, and At(s, i) reads position i of a list.        *)
(* A dict is a function whose DOMAIN is its key set.                       *)
(***************************************************************************)
EXTENDS Integers, Sequences, FiniteSets, TLC

(***************************************************************************)
(* Bounds of the model.                                                    *)
(***************************************************************************)
MaxRows == 3        \* rows of the datasets given to a bare adapter
MaxVal == 1         \* present cell values are 0..MaxVal
MaxAttrs == 2       \* ordinary features of a drawn domain
MaxClassVars == 1   \* auxiliary targets of a drawn domain
MaxMetas == 2       \* metadata features of a drawn domain
MaxConnections == 2 \* times one view is given an adapter (setTable)
MaxStat == 2        \* column minima and maxima of a statistics container are 0..MaxStat
MaxNameLen == 2     \* characters of a feature name given to header_text, header_tooltip
MaxCopyRows == 2    \* rows of a dataset whose selection is copied to the clipboard
MaxAdds == 3        \* elements added to a contingency matrix
MaxKeys == 2        \* keys of a key list given to header_text, header_tooltip

(***************************************************************************)
(* Python values.                                                          *)
(***************************************************************************)
None == [none |-> TRUE]

\* A list where None may stand instead: Some(list), read back with .some
Some(x) == [some |-> x]

At(s, i) == s[i + 1]

Range(s) == {s[i] : i \in 1..Len(s)}

\* range(n) = [0, 1, ..., n-1]
PyRange(n) == [i \in 1..n |-> i - 1]

\* [x] * n
Repeat(x, n) == [i \in 1..n |-> x]

Reverse(s) == [i \in 1..Len(s) |-> s[Len(s) + 1 - i]]

\* sys.maxint (of a 32-bit build; the sentinel key of a missing value)
maxint == 2147483647

(***************************************************************************)
(* Orange values, features, domains and tables.  A value is special        *)
(* (missing) or holds a number; present values compare by their number     *)
(* and lie below sys.maxint.                                               *)
(***************************************************************************)
Missing == [special |-> TRUE, v |-> 0]

Val(n) == [special |-> FALSE, v |-> n]

isSpecial(val) == val.special

Values == {Val(n) : n \in 0..MaxVal} \cup {Missing}

\* A feature descriptor: name, value kind, annotation mapping.
Feature(name, continuous, attributes) ==
    [name |-> name, continuous |-> continuous, attributes |-> attributes]

NoLabels == [k \in {} |-> ""]

\* A domain: attributes, class_var (or None), class_vars, metas.
Domain(attributes, class_var, class_vars, metas) ==
    [attributes |-> attributes, class_var |-> class_var,
     class_vars |-> class_vars, metas |-> metas]

\* An ExampleTable: a name, a domain and the examples (feature name -> value).
Table(name, domain, rows) == [name |-> name, domain |-> domain, rows |-> rows]


(***************************************************************************)
(* Texts.  A str that is taken apart is the sequence of its characters     *)
(* (the names and annotations of the features given to header_text and     *)
(* header_tooltip); a name that is only compared is a TLA+ string.         *)
(***************************************************************************)
\* sep.join(items)
RECURSIVE join(_, _)
join(sep, items) ==
    IF Len(items) = 0 THEN <<>>
    ELSE IF Len(items) = 1 THEN items[1]
    ELSE items[1] \o sep \o join(sep, Tail(items))

\* dict.get(key, default) on a feature's annotations
get(d, k, default) == IF k \in DOMAIN d THEN d[k] ELSE default

\* header_text with the keys the feature lacks left out.
header_textSkipsAbsent(feature, labels) ==
    join(<<"\n">>,
         <<feature.name>> \o
         (IF labels # None
          THEN [i \in 1..Len(SelectSeq(labels.some,
                                   LAMBDA k : k \in DOMAIN feature.attributes)) |->
                  feature.attributes[
                      SelectSeq(labels.some,
                                LAMBDA k : k \in DOMAIN feature.attributes)[i]]]
          ELSE <<>>))

\* header_text(feature, labels=None); labels is None or Some(list of keys)
header_text(feature, labels) ==
    join(<<"\n">>,
         <<feature.name>> \o
         (IF labels # None
          THEN [i \in 1..Len(labels.some) |->
                  get(feature.attributes, labels.some[i], <<>>)]
          ELSE <<>>))

\* xml.sax.saxutils.escape
escapeChar(c) ==
    CASE c = "&" -> <<"&", "a", "m", "p", ";">>
      [] c = "<" -> <<"&", "l", "t", ";">>
      [] c = ">" -> <<"&", "g", "t", ";">>
      [] OTHER -> <<c>>

RECURSIVE escape(_)
escape(str) ==
    IF Len(str) = 0 THEN <<>> ELSE escapeChar(Head(str)) \o escape(Tail(str))

\* header_tooltip with a requested key the feature lacks shown with no value.
header_tooltipShowsAbsent(feature, labels) ==
    join(<<"<", "b", "r", "/", ">">>,
         <<<<"<", "b", ">">> \o escape(feature.name) \o <<"<", "/", "b", ">">>>> \o
         [i \in 1..Len(labels) |->
             escape(labels[i]) \o <<" ", "=", " ">> \o
             escape(get(feature.attributes, labels[i], <<>>))])

\* header_tooltip(feature, labels), labels a list of keys (for labels=None
\* the caller passes feature.attributes.keys() in the order the dict gives)
header_tooltip(feature, labels) ==
    join(<<"<", "b", "r", "/", ">">>,
         <<<<"<", "b", ">">> \o escape(feature.name) \o <<"<", "/", "b", ">">>>> \o
         [i \in 1..Len(SelectSeq(labels,
                                 LAMBDA k : k \in DOMAIN feature.attributes)) |->
             escape(SelectSeq(labels,
                              LAMBDA k : k \in DOMAIN feature.attributes)[i])
             \o <<" ", "=", " ">> \o
             escape(feature.attributes[
                        SelectSeq(labels,
                                  LAMBDA k : k \in DOMAIN feature.attributes)[i]])])

(***************************************************************************)
(* ExampleTableModel: the adapter of a dataset for a grid view.            *)
(***************************************************************************)
Attribute == 0
ClassVar == 1
ClassVars == 2
Meta == 3

AscendingOrder == 0
DescendingOrder == 1

cls_color == <<160, 160, 160>>
meta_color == <<220, 220, 200>>

role_to_color(role) ==
    CASE role = Attribute -> None
      [] role = ClassVar -> cls_color
      [] role = ClassVars -> cls_color
      [] role = Meta -> meta_color

\* AllAttrs with the metas placed first.
AllAttrsMetasFirst(domain) ==
    domain.metas \o domain.attributes \o
    (IF domain.class_var # None THEN <<domain.class_var>> ELSE <<>>) \o
    domain.class_vars

\* The display columns: ordinary + primary target + auxiliary targets + metas.
AllAttrs(domain) ==
    domain.attributes \o
    (IF domain.class_var # None THEN <<domain.class_var>> ELSE <<>>) \o
    domain.class_vars \o domain.metas

\* TableRoles with the auxiliary targets left untagged.
TableRolesNoClassVars(domain) ==
    Repeat(Attribute, Len(domain.attributes)) \o
    (IF domain.class_var # None THEN <<ClassVar>> ELSE <<>>) \o
    Repeat(Meta, Len(domain.metas))

\* The role tags of the display columns.
TableRoles(domain) ==
    Repeat(Attribute, Len(domain.attributes)) \o
    (IF domain.class_var # None THEN <<ClassVar>> ELSE <<>>) \o
    Repeat(ClassVars, Len(domain.class_vars)) \o
    Repeat(Meta, Len(domain.metas))

\* ord(c) of the characters the texts are made of
ord(c) ==
    CASE c = "\n" -> 10
      [] c = "<" -> 60
      [] c = "a" -> 97
      [] c = "k" -> 107
      [] c = "m" -> 109
      [] c = "x" -> 120

\* s < t of two str
RECURSIVE strLess(_, _)
strLess(s, t) ==
    IF Len(t) = 0 THEN FALSE
    ELSE IF Len(s) = 0 THEN TRUE
    ELSE IF s[1] # t[1] THEN ord(s[1]) < ord(t[1])
    ELSE strLess(Tail(s), Tail(t))

\* sorted(S) of a set of str
sortedKeys(S) ==
    CHOOSE seq \in [1..Cardinality(S) -> S] :
        /\ Range(seq) = S
        /\ \A i, j \in 1..Cardinality(S) : i < j => strLess(seq[i], seq[j])

\* reduce(set.union, [attr.attributes for attr in all_attrs], set())
annotationKeys(all_attrs) ==
    UNION {DOMAIN all_attrs[i].attributes : i \in 1..Len(all_attrs)}

\* ExampleTableModel.__init__(examples, dist)
ExampleTableModel(examples, dist) ==
    LET domain == examples.domain
        all_attrs == AllAttrs(domain)
        table_roles == TableRoles(domain)
    IN  [examples |-> examples,
         dist |-> dist,
         other_data |-> [k \in {} |-> None],
         attributes |-> domain.attributes,
         class_var |-> domain.class_var,
         class_vars |-> domain.class_vars,
         metas |-> domain.metas,
         all_attrs |-> all_attrs,
         table_roles |-> table_roles,
         continuous_mask |-> [i \in 1..Len(all_attrs) |-> all_attrs[i].continuous],
         meta_mask |-> [i \in 1..Len(table_roles) |-> table_roles[i] = Meta],
         background_colors |->
             [i \in 1..Len(table_roles) |-> role_to_color(table_roles[i])],
         attr_labels |-> sortedKeys(annotationKeys(all_attrs)),
         header_labels |->
             [i \in 1..Len(all_attrs) |-> header_text(all_attrs[i], None)],
         sorted_map |-> PyRange(Len(examples.rows)),
         show_attr_labels |-> FALSE]

rowCount(model) == Len(model.examples.rows)

\* A signal the adapter emits, with its arguments.
Signal(name, args) == [signal |-> name, args |-> args]

\* ExampleTableModel.index(row, col): createIndex(row, col, 0)
createIndex(row, col) == <<row, col>>

\* set_show_attr_labels with the header texts left as they are.
set_show_attr_labelsKeepsHeader(self, val) ==
    IF self.model.show_attr_labels # val
    THEN [model |-> [self.model EXCEPT !.show_attr_labels = val],
          emitted |-> self.emitted \o
              <<Signal("layoutAboutToBeChanged()", <<>>),
                Signal("headerDataChanged(Qt::Orientation, int, int)",
                       <<"Qt.Horizontal", 0, Len(self.model.all_attrs) - 1>>),
                Signal("layoutChanged()", <<>>),
                Signal("dataChanged(QModelIndex, QModelIndex)",
                       <<createIndex(0, 0),
                         createIndex(Len(self.model.examples.rows) - 1,
                               Len(self.model.all_attrs) - 1)>>)>>]
    ELSE self

\* ExampleTableModel.set_show_attr_labels(val); self is the adapter (model)
\* with the signals emitted so far in the call (emitted)
set_show_attr_labels(self, val) ==
    IF self.model.show_attr_labels # val
    THEN [model |->
              [self.model EXCEPT
                  !.show_attr_labels = val,
                  !.header_labels =
                      [i \in 1..Len(self.model.all_attrs) |->
                          header_text(self.model.all_attrs[i],
                                      IF val THEN Some(self.model.attr_labels)
                                      ELSE None)]],
          emitted |-> self.emitted \o
              <<Signal("layoutAboutToBeChanged()", <<>>),
                Signal("headerDataChanged(Qt::Orientation, int, int)",
                       <<"Qt.Horizontal", 0, Len(self.model.all_attrs) - 1>>),
                Signal("layoutChanged()", <<>>),
                Signal("dataChanged(QModelIndex, QModelIndex)",
                       <<createIndex(0, 0),
                         createIndex(Len(self.model.examples.rows) - 1,
                               Len(self.model.all_attrs) - 1)>>)>>]
    ELSE self

columnCount(model) == Len(model.all_attrs)

\* str(n) of a natural number: a str is the sequence of its characters.
RECURSIVE Digits(_)
Digits(n) ==
    IF n < 10 THEN <<ToString(n)>>
    ELSE Digits(n \div 10) \o <<ToString(n % 10)>>

\* A value that holds a text (of a discrete or string feature).
Text(str) == [special |-> FALSE, v |-> 0, text |-> str]

\* str(val) of a dataset value
Str(val) ==
    IF isSpecial(val) THEN <<"?">>
    ELSE IF "text" \in DOMAIN val THEN val.text
    ELSE Digits(val.v)

\* a / b on numbers: the quotient (kept as the pair), or the error raised
ZeroDivisionError == [raised |-> "ZeroDivisionError"]

Div(a, b) == IF b = 0 THEN ZeroDivisionError ELSE [num |-> a, den |-> b]

\* api_qvariant: what data returns is a QVariant of the value, or None.
QVariant(x) == [variant |-> x]

\* The roles data answers itself.
recognizedRoles ==
    {"DisplayRole", "BackgroundRole", "BarRole", "TableValueRole",
     "TableClassValueRole", "TableVariable"}

\* model_data with the bar fraction divided by the column's range as it is.
model_dataDividesByRange(model, row, col, role) ==
    LET attr == At(model.all_attrs, col)
        example == At(model.examples.rows, At(model.sorted_map, row))
        val == example[attr.name]
    IN  IF role \notin recognizedRoles
        THEN IF <<row, col, role>> \in DOMAIN model.other_data
             THEN model.other_data[<<row, col, role>>] ELSE None
        ELSE IF role = "DisplayRole" THEN QVariant(Str(val))
        ELSE IF role = "BackgroundRole"
        THEN QVariant(At(model.background_colors, col))
        ELSE IF /\ role = "BarRole"
                /\ At(model.continuous_mask, col)
                /\ ~isSpecial(val)
                /\ col < Len(model.dist)
        THEN QVariant(Div(val.v - At(model.dist, col).min,
                          At(model.dist, col).max - At(model.dist, col).min))
        ELSE IF role = "TableValueRole" THEN QVariant(val)
        ELSE IF role = "TableClassValueRole" /\ model.class_var # None
        THEN QVariant(example[model.class_var.name])
        ELSE IF role = "TableVariable" THEN QVariant(attr)
        ELSE None

\* ExampleTableModel.data(index, role), index = (row, col)
model_data(model, row, col, role) ==
    LET attr == At(model.all_attrs, col)
        example == At(model.examples.rows, At(model.sorted_map, row))
        val == example[attr.name]
    IN  IF role \notin recognizedRoles
        THEN IF <<row, col, role>> \in DOMAIN model.other_data
             THEN model.other_data[<<row, col, role>>] ELSE None
        ELSE IF role = "DisplayRole" THEN QVariant(Str(val))
        ELSE IF role = "BackgroundRole"
        THEN QVariant(At(model.background_colors, col))
        ELSE IF /\ role = "BarRole"
                /\ At(model.continuous_mask, col)
                /\ ~isSpecial(val)
                /\ col < Len(model.dist)
        THEN QVariant(Div(val.v - At(model.dist, col).min,
                          IF At(model.dist, col).max - At(model.dist, col).min # 0
                          THEN At(model.dist, col).max - At(model.dist, col).min
                          ELSE 1))
        ELSE IF role = "TableValueRole" THEN QVariant(val)
        ELSE IF role = "TableClassValueRole" /\ model.class_var # None
        THEN QVariant(example[model.class_var.name])
        ELSE IF role = "TableVariable" THEN QVariant(attr)
        ELSE None

\* setData with the value stored under (column, row, role).
setDataKeyedByColumnRow(self, row, col, variant, role) ==
    [model |->
         [self.model EXCEPT !.other_data =
             [k \in DOMAIN @ \cup {<<col, row, role>>} |->
                 IF k = <<col, row, role>> THEN variant ELSE @[k]]],
     emitted |-> self.emitted \o
         <<Signal("dataChanged(QModelIndex, QModelIndex)",
                  <<createIndex(row, col), createIndex(row, col)>>)>>]

\* ExampleTableModel.setData(index, variant, role), index = (row, col); self
\* is the adapter (model) with the signals emitted so far in the call
setData(self, row, col, variant, role) ==
    [model |->
         [self.model EXCEPT !.other_data =
             [k \in DOMAIN @ \cup {<<row, col, role>>} |->
                 IF k = <<row, col, role>> THEN variant ELSE @[k]]],
     emitted |-> self.emitted \o
         <<Signal("dataChanged(QModelIndex, QModelIndex)",
                  <<createIndex(row, col), createIndex(row, col)>>)>>]

(***************************************************************************)
(* sorted(values, key=..., reverse=...): Python's sort is stable, and      *)
(* with reverse=True it keeps the original order of equal keys too (the    *)
(* list is reversed, sorted stably and reversed back).                     *)
(***************************************************************************)
\* SortKey with a missing value keyed below every present one.
SortKeyMissingLow(t) == IF ~isSpecial(t[1]) THEN t[1].v ELSE -1

\* key=lambda t: t[0] if not t[0].isSpecial() else sys.maxint
SortKey(t) == IF ~isSpecial(t[1]) THEN t[1].v ELSE maxint

\* Insert with an element placed before those of equal key (an unstable sort).
InsertBeforeEqual(t, s) ==
    LET n == Cardinality({i \in 1..Len(s) : SortKey(s[i]) < SortKey(t)})
    IN  SubSeq(s, 1, n) \o <<t>> \o SubSeq(s, n + 1, Len(s))

\* Insert t into the sorted list s behind every element whose key is <= its own.
Insert(t, s) ==
    LET n == Cardinality({i \in 1..Len(s) : SortKey(s[i]) <= SortKey(t)})
    IN  SubSeq(s, 1, n) \o <<t>> \o SubSeq(s, n + 1, Len(s))

RECURSIVE StableSort(_)
StableSort(s) ==
    IF Len(s) = 0 THEN <<>>
    ELSE Insert(s[Len(s)], StableSort(SubSeq(s, 1, Len(s) - 1)))

\* PySorted with reverse ignored.
PySortedIgnoresReverse(values, reverse) == StableSort(values)

PySorted(values, reverse) ==
    IF reverse THEN Reverse(StableSort(Reverse(values)))
    ELSE StableSort(values)

\* ExampleTableModel.sort(column, order): the new row-order array.
SortedMap(model, column, order) ==
    LET attr == At(model.all_attrs, column)
        rows == model.examples.rows
        values == [i \in 1..Len(rows) |-> <<rows[i][attr.name], i - 1>>]
        sorted == PySorted(values, order # AscendingOrder)
    IN  [i \in 1..Len(sorted) |-> sorted[i][2]]

\* sort with the rows of a missing value left out of the row order.
sortDropsMissing(model, column, order) ==
    [model EXCEPT !.sorted_map =
        SelectSeq(SortedMap(model, column, order),
                  LAMBDA r : ~isSpecial(At(model.examples.rows, r)
                                           [At(model.all_attrs, column).name]))]

sort(model, column, order) ==
    [model EXCEPT !.sorted_map = SortedMap(model, column, order)]

\* The signals sort emits.
sortSignals(model) ==
    <<Signal("layoutAboutToBeChanged()", <<>>),
      Signal("layoutChanged()", <<>>),
      Signal("dataChanged(QModelIndex, QModelIndex)",
             <<createIndex(0, 0),
               createIndex(Len(model.examples.rows) - 1, Len(model.all_attrs) - 1)>>)>>

(***************************************************************************)
(* The datasets given to a bare adapter.                                   *)
(***************************************************************************)
FeatureX == Feature("x", TRUE, NoLabels)
FeatureM == Feature("m", TRUE, NoLabels)

Seqs(S, n) == UNION {[1..k -> S] : k \in 0..n}

\* Two columns (an ordinary feature and a meta), up to MaxRows rows.
SortTables ==
    {Table("", Domain(<<FeatureX>>, None, <<>>, <<FeatureM>>), rows) :
        rows \in Seqs([{"x", "m"} -> Values], MaxRows)}

Features(prefix, n) ==
    {[i \in 1..n |-> Feature(prefix \o ToString(i), k[i], NoLabels)] :
        k \in [1..n -> BOOLEAN]}

\* Every domain shape within the bounds, over an empty dataset.
ShapeTables ==
    {Table("", Domain(a, y, c, m), <<>>) :
        a \in UNION {Features("a", n) : n \in 0..MaxAttrs},
        y \in {None, Feature("y", FALSE, NoLabels), Feature("y", TRUE, NoLabels)},
        c \in UNION {Features("c", n) : n \in 0..MaxClassVars},
        m \in UNION {Features("m", n) : n \in 0..MaxMetas}}


(***************************************************************************)
(* OWDataTable: the widget.  A handler is a function from the widget       *)
(* state w (a record of the fields below) to the widget state it leaves.   *)
(***************************************************************************)
ConnId(n) == [id |-> n]

Ids == {ConnId("a"), ConnId("b")}

\* A grid view object (TableViewWithCopy); n tells the objects apart.
View(n) == [view |-> n]

\* dict.get(key, None)
Get(d, k) == IF k \in DOMAIN d THEN d[k] ELSE None

\* dict.pop(key)
Pop(d, k) == [x \in DOMAIN d \ {k} |-> d[x]]

\* d[key] = value
Put(d, k, v) == [x \in DOMAIN d \cup {k} |-> IF x = k THEN v ELSE d[x]]

EmptyDict == [x \in {} |-> None]

\* list.index(x), or -1 (QTabWidget.indexOf)
IndexOf(s, x) ==
    IF \E i \in 1..Len(s) : s[i] = x
    THEN (CHOOSE i \in 1..Len(s) : s[i] = x) - 1
    ELSE -1

RemoveAt(s, i) == SubSeq(s, 1, i) \o SubSeq(s, i + 2, Len(s))

\* sorted(set): the elements of a set of numbers in increasing order
RECURSIVE SortedSeq(_)
SortedSeq(S) ==
    IF S = {} THEN <<>>
    ELSE LET x == CHOOSE y \in S : \A z \in S : y <= z
         IN  <<x>> \o SortedSeq(S \ {x})

currentWidget(w) ==
    IF w.currentIndex = -1 THEN None ELSE At(w.tabs, w.currentIndex)

\* OWWidget.send(channel, value)
send(w, channel, value) ==
    IF channel = "Selected Data"
    THEN [w EXCEPT !.selectedData = value, !.nsent = @ + 1]
    ELSE [w EXCEPT !.otherData = value, !.nsent = @ + 1]

\* ExampleTable.select(selection) keeps the examples whose flag is not 0;
\* ExampleTable.select(selection, 0) keeps those whose flag is 0.
RECURSIVE SelectRows(_, _, _)
SelectRows(rows, selection, negate) ==
    IF Len(rows) = 0 THEN <<>>
    ELSE LET keep == IF negate THEN selection[1] = 0 ELSE selection[1] # 0
         IN  (IF keep THEN <<rows[1]>> ELSE <<>>) \o
             SelectRows(Tail(rows), Tail(selection), negate)

select(tbl, selection, negate) ==
    [tbl EXCEPT !.rows = SelectRows(tbl.rows, selection, negate)]

\* getCurrentSelection with the view rows returned without sorted_map.
getCurrentSelectionUnmapped(w) ==
    LET table == currentWidget(w)
    IN  IF table # None /\ w.views[table].model # None
        THEN Some(SortedSeq(w.views[table].selected))
        ELSE None

\* OWDataTable.getCurrentSelection
getCurrentSelection(w) ==
    LET table == currentWidget(w)
    IN  IF table # None /\ w.views[table].model # None
        THEN LET model == w.views[table].model
                 new == w.views[table].selected
             IN  Some(SortedSeq({At(model.sorted_map, r) : r \in new}))
        ELSE None

\* commit with the selected rows sent on both channels.
commitSameMaskTwice(w) ==
    LET table == currentWidget(w)
        sent ==
            IF table # None /\ w.views[table].model # None
            THEN LET model == w.views[table].model
                     selected == getCurrentSelection(w).some
                     selection == [i \in 1..Len(model.examples.rows) |->
                                     IF i - 1 \in Range(selected) THEN 1 ELSE 0]
                     data1 == select(model.examples, selection, FALSE)
                     w1 == send(w, "Selected Data",
                                IF Len(data1.rows) > 0 THEN data1 ELSE None)
                 IN  send(w1, "Other Data",
                          IF Len(data1.rows) > 0 THEN data1 ELSE None)
            ELSE send(send(w, "Selected Data", None), "Other Data", None)
    IN  [sent EXCEPT !.selectionChangedFlag = FALSE]

\* commit with nothing sent when there is no current tab or adapter.
commitSilentWithoutTab(w) ==
    LET table == currentWidget(w)
        sent ==
            IF table # None /\ w.views[table].model # None
            THEN LET model == w.views[table].model
                     selected == getCurrentSelection(w).some
                     selection == [i \in 1..Len(model.examples.rows) |->
                                     IF i - 1 \in Range(selected) THEN 1 ELSE 0]
                     data1 == select(model.examples, selection, FALSE)
                     w1 == send(w, "Selected Data",
                                IF Len(data1.rows) > 0 THEN data1 ELSE None)
                     data2 == select(model.examples, selection, TRUE)
                 IN  send(w1, "Other Data",
                          IF Len(data2.rows) > 0 THEN data2 ELSE None)
            ELSE w
    IN  [sent EXCEPT !.selectionChangedFlag = FALSE]

\* commit with the selected and the other rows sent even when there are none.
commitSendsEmptyTables(w) ==
    LET table == currentWidget(w)
        sent ==
            IF table # None /\ w.views[table].model # None
            THEN LET model == w.views[table].model
                     selected == getCurrentSelection(w).some
                     selection == [i \in 1..Len(model.examples.rows) |->
                                     IF i - 1 \in Range(selected) THEN 1 ELSE 0]
                     data1 == select(model.examples, selection, FALSE)
                     w1 == send(w, "Selected Data", data1)
                     data2 == select(model.examples, selection, TRUE)
                 IN  send(w1, "Other Data", data2)
            ELSE send(send(w, "Selected Data", None), "Other Data", None)
    IN  [sent EXCEPT !.selectionChangedFlag = FALSE]

\* OWDataTable.commit
commit(w) ==
    LET table == currentWidget(w)
        sent ==
            IF table # None /\ w.views[table].model # None
            THEN LET model == w.views[table].model
                     selected == getCurrentSelection(w).some
                     selection == [i \in 1..Len(model.examples.rows) |->
                                     IF i - 1 \in Range(selected) THEN 1 ELSE 0]
                     data1 == select(model.examples, selection, FALSE)
                     w1 == send(w, "Selected Data",
                                IF Len(data1.rows) > 0 THEN data1 ELSE None)
                     data2 == select(model.examples, selection, TRUE)
                 IN  send(w1, "Other Data",
                          IF Len(data2.rows) > 0 THEN data2 ELSE None)
            ELSE send(send(w, "Selected Data", None), "Other Data", None)
    IN  [sent EXCEPT !.selectionChangedFlag = FALSE]

\* commitIf with commit whatever autoCommit is.
commitIfAlways(w) == commit(w)

\* OWDataTable.commitIf
commitIf(w) ==
    IF w.autoCommit THEN commit(w)
    ELSE [w EXCEPT !.selectionChangedFlag = TRUE]

\* updateSelection with the button disabled whatever the selection.
updateSelectionDisablesButton(w) ==
    commitIf([w EXCEPT !.sendEnabled = FALSE])

\* OWDataTable.updateSelection
updateSelection(w) ==
    LET sel == getCurrentSelection(w)
        nonempty == sel # None /\ Len(sel.some) > 0
    IN  commitIf([w EXCEPT !.sendEnabled = nonempty /\ ~w.autoCommit])

\* tabClicked with the check box left as it is.
tabClickedKeepsCheckBox(w, qTableInstance) == updateSelection(w)

\* OWDataTable.tabClicked: the slot of the tab strip's currentChanged signal
tabClicked(w, qTableInstance) ==
    LET id == Get(w.table2id, qTableInstance)
        show_col == Get(w.showMetas, id)
        w1 == IF show_col # None
              THEN [w EXCEPT !.showMeta = show_col.shown,
                             !.cbShowMetaEnabled = Len(show_col.columns) > 0]
              ELSE w
    IN  updateSelection(w1)

(***************************************************************************)
(* The tab strip (QTabWidget).  currentChanged is emitted, and tabClicked  *)
(* runs, whenever the strip changes its current index: when the first tab  *)
(* is added, when the current tab or a tab before it is removed (the tab   *)
(* to the right of a removed current tab becomes current), and when        *)
(* setCurrentIndex names another index.                                    *)
(***************************************************************************)
addTab(w, table) ==
    LET w1 == [w EXCEPT !.tabs = Append(@, table)]
    IN  IF Len(w.tabs) = 0
        THEN tabClicked([w1 EXCEPT !.currentIndex = 0], table)
        ELSE w1

removeTab(w, index) ==
    IF index < 0 \/ index >= Len(w.tabs) THEN w
    ELSE LET w1 == [w EXCEPT !.tabs = RemoveAt(@, index)]
             n == Len(w1.tabs)
         IN  IF index = w.currentIndex
             THEN IF n > 0
                  THEN LET newIndex == IF index >= n THEN n - 1 ELSE index
                           w2 == [w1 EXCEPT !.currentIndex = newIndex]
                       IN  tabClicked(w2, currentWidget(w2))
                  ELSE tabClicked([w1 EXCEPT !.currentIndex = -1], None)
             ELSE IF index < w.currentIndex
             THEN LET w2 == [w1 EXCEPT !.currentIndex = @ - 1]
                  IN  tabClicked(w2, currentWidget(w2))
             ELSE w1

setCurrentIndex(w, index) ==
    IF index >= 0 /\ index < Len(w.tabs) /\ index # w.currentIndex
    THEN LET w1 == [w EXCEPT !.currentIndex = index]
         IN  tabClicked(w1, currentWidget(w1))
    ELSE w

\* TableViewWithCopy(): a new view object, none of those the widget holds
\* or a pending redraw refers to
FreshView(w) ==
    View(CHOOSE n \in 1..(Cardinality(DOMAIN w.views \cup w.timers) + 1) :
            /\ View(n) \notin DOMAIN w.views \cup w.timers
            /\ \A m \in 1..(n - 1) : View(m) \in DOMAIN w.views \cup w.timers)

\* its state: no model set yet
NewView == [model |-> None, selected |-> {}, oldSortingIndex |-> None,
            oldSortingOrder |-> None, sortConnections |-> 0, hidden |-> {}]

\* OWDataTable.setTable, from the adapter on: the view gets the adapter
\* (setModel gives it a new, empty selection model; its header keeps the
\* hidden columns of a model with as many columns), the meta columns are
\* appended to the connection's record and the header's sectionClicked is
\* connected once more.  The attribute labels, drawn in between (570), are
\* drawn by setTable.
setModel(w, table, datamodel) ==
    [w EXCEPT
        !.views[table] =
            [model |-> datamodel,
             selected |-> {},
             oldSortingIndex |-> -1,
             oldSortingOrder |-> 1,
             sortConnections |-> @.sortConnections + 1,
             hidden |-> @.hidden],
        !.showMetas[Get(w.table2id, table)].columns =
            @ \o SelectSeq(PyRange(Len(datamodel.all_attrs)),
                           LAMBDA i : At(datamodel.all_attrs, i)
                                          \in Range(datamodel.metas))]

\* getCached(data, orange.DomainBasicAttrStat, (data,)): one entry per domain
\* variable (the ordinary features, then the primary target), None for one
\* that is not continuous, else the minimum and maximum of its present
\* values (0 when it has none).
Present(tbl, feature) ==
    {tbl.rows[i][feature.name].v :
        i \in {j \in 1..Len(tbl.rows) : ~isSpecial(tbl.rows[j][feature.name])}}

BasicAttrStat(tbl, feature) ==
    IF ~feature.continuous THEN None
    ELSE IF Present(tbl, feature) = {} THEN [min |-> 0, max |-> 0]
    ELSE [min |-> CHOOSE x \in Present(tbl, feature) :
                     \A y \in Present(tbl, feature) : x <= y,
          max |-> CHOOSE x \in Present(tbl, feature) :
                     \A y \in Present(tbl, feature) : x >= y]

DomainBasicAttrStat(tbl) ==
    [i \in 1..Len(tbl.domain.attributes) |->
        BasicAttrStat(tbl, tbl.domain.attributes[i])] \o
    (IF tbl.domain.class_var # None
     THEN <<BasicAttrStat(tbl, tbl.domain.class_var)>> ELSE <<>>)

\* RuntimeError: underlying C/C++ object has been deleted
RuntimeError == [raised |-> "RuntimeError"]

\* p without the try: the RuntimeError of a deleted view gets out.
pLetsRaise(w, table, deleted) ==
    IF deleted THEN [w EXCEPT !.raised = RuntimeError] ELSE w

\* p, the deferred redraw setTable defines for the view table: the view's
\* geometries and viewport are updated, which is not part of the state, or
\* the view has been deleted and the RuntimeError is passed over
p(w, table, deleted) == w

\* The slot setTable connects to the adapter's layoutChanged: each emission
\* among the signals emitted schedules p for the view with
\* QTimer.singleShot(50, p).  p is idempotent: the views with a redraw
\* pending are kept as a set.
layoutChanged(signals, table) ==
    IF \E i \in 1..Len(signals) : signals[i].signal = "layoutChanged()"
    THEN {table} ELSE {}

\* OWDataTable.drawAttributeLabels: the adapter of the view gets the
\* widget's setting (the corner text and the repaint are not part of the
\* state)
drawAttributeLabels(w, table) ==
    [w EXCEPT
        !.views[table].model =
            set_show_attr_labels([model |-> @, emitted |-> <<>>],
                                 w.showAttributeLabels).model,
        !.timers = @ \cup layoutChanged(
            set_show_attr_labels(
                [model |-> w.views[table].model, emitted |-> <<>>],
                w.showAttributeLabels).emitted, table)]

\* OWDataTable.cbShowAttLabelsClicked: drawAttributeLabels for every view of
\* table2id
cbShowAttLabelsClicked(w) ==
    [w EXCEPT !.views =
        [table \in DOMAIN @ |->
            IF table \in DOMAIN w.table2id
            THEN drawAttributeLabels(w, table).views[table]
            ELSE @[table]],
        !.timers =
            @ \cup UNION {drawAttributeLabels(w, table).timers :
                             table \in DOMAIN w.table2id}]

\* The check box 'Show attribute labels (if any)': the user's click sets
\* showAttributeLabels and runs the callback cbShowAttLabelsClicked.
cbShowAttLabelsToggled(w) ==
    cbShowAttLabelsClicked([w EXCEPT !.showAttributeLabels = ~@])

\* OWDataTable.setTable
setTable(w, table, d) ==
    IF d = None THEN w
    ELSE drawAttributeLabels(
             setModel(w, table, ExampleTableModel(d, DomainBasicAttrStat(d))),
             table)

\* OWDataTable.setCbShowMeta
setCbShowMeta(w) ==
    [w EXCEPT !.cbShowMetaEnabled =
        \E ti \in 1..Len(w.tabs) : Len(w.views[w.tabs[ti]].model.metas) > 0]

\* removeExisting with the showMetas entry kept.
removeExistingKeepsShowMetas(w, id) ==
    LET w1 == [w EXCEPT !.data = Pop(@, id)]
        table == w1.id2table[id]
        w3 == removeTab(w1, IndexOf(w1.tabs, table))
    IN  [w3 EXCEPT !.id2table = Pop(@, id),
                   !.table2id = Pop(@, table),
                   !.views = Pop(@, table)]

\* removeExisting with the tab and its view kept.
removeExistingKeepsTab(w, id) ==
    LET w1 == [w EXCEPT !.data = Pop(@, id)]
        w2 == [w1 EXCEPT !.showMetas = Pop(@, id)]
        table == w2.id2table[id]
    IN  [w2 EXCEPT !.id2table = Pop(@, id),
                   !.table2id = Pop(@, table)]

\* The teardown of a connection's entries in dataset(): "remove existing table".
removeExisting(w, id) ==
    LET w1 == [w EXCEPT !.data = Pop(@, id)]
        w2 == [w1 EXCEPT !.showMetas = Pop(@, id)]
        table == w2.id2table[id]
        w3 == removeTab(w2, IndexOf(w2.tabs, table))
    IN  [w3 EXCEPT !.id2table = Pop(@, id),
                   !.table2id = Pop(@, table),
                   !.views = Pop(@, table)]

\* dataset(), data given: the connection's entries and a new view are
\* registered, the view becomes a tab, gets its adapter and is shown.
register(w, d, id, table) ==
    [w EXCEPT !.data = Put(@, id, d),
              !.showMetas = Put(@, id, [shown |-> TRUE, columns |-> <<>>]),
              !.views = Put(@, table, NewView),
              !.id2table = Put(@, id, table),
              !.table2id = Put(@, table, id)]

showTable(w, table) == setCurrentIndex(w, IndexOf(w.tabs, table))

enableSendButton(w) == [w EXCEPT !.sendEnabled = ~w.autoCommit]

addTable(w, d, id, table) ==
    enableSendButton(
        showTable(setTable(addTab(register(w, d, id, table), table), table, d),
                  table))

\* disableSendButtonIfNoData with the button left as it is.
disableSendButtonNever(w) == w

\* dataset(), the end: no data left disables the button; setCbShowMeta
disableSendButtonIfNoData(w) ==
    IF Cardinality(DOMAIN w.data) = 0
    THEN [w EXCEPT !.sendEnabled = FALSE]
    ELSE w

\* dataset with None ignored.
datasetIgnoresNone(w, d, id) ==
    setCbShowMeta(disableSendButtonIfNoData(
        IF d # None
        THEN addTable(IF id \in DOMAIN w.data THEN removeExisting(w, id) ELSE w,
                      d, id, FreshView(w))
        ELSE w))

\* dataset with None for an id without entry tearing down the active tab.
datasetNoneRemovesCurrent(w, d, id) ==
    setCbShowMeta(disableSendButtonIfNoData(
        IF d # None
        THEN addTable(IF id \in DOMAIN w.data THEN removeExisting(w, id) ELSE w,
                      d, id, FreshView(w))
        ELSE IF id \in DOMAIN w.data
        THEN removeExisting(w, id)
        ELSE IF currentWidget(w) # None
        THEN removeExisting(w, w.table2id[currentWidget(w)])
        ELSE w))

\* OWDataTable.dataset(data, id)
dataset(w, d, id) ==
    setCbShowMeta(disableSendButtonIfNoData(
        IF d # None
        THEN addTable(IF id \in DOMAIN w.data THEN removeExisting(w, id) ELSE w,
                      d, id, FreshView(w))
        ELSE IF id \in DOMAIN w.data
        THEN removeExisting(w, id)
        ELSE w))

\* OWDataTable.sortByColumn: the slot of the header's sectionClicked signal
sortByColumn(w, index) ==
    LET table == currentWidget(w)
        v == w.views[table]
        order == IF index = v.oldSortingIndex
                 THEN (IF v.oldSortingOrder = AscendingOrder
                       THEN DescendingOrder ELSE AscendingOrder)
                 ELSE AscendingOrder
    IN  [w EXCEPT !.views[table] =
            [v EXCEPT !.model = sort(v.model, index, order),
                      !.oldSortingIndex = index,
                      !.oldSortingOrder = order],
                  !.timers = @ \cup layoutChanged(sortSignals(v.model), table)]

\* A click on a header section runs every connected sortByColumn slot.
RECURSIVE sectionClicked(_, _, _)
sectionClicked(w, index, connections) ==
    IF connections = 0 THEN w
    ELSE sectionClicked(sortByColumn(w, index), index, connections - 1)

\* The error a dictionary raises for a key it does not hold.
KeyError == [raised |-> "KeyError"]

\* OWDataTable.sendReport: the current tab's dataset (None without one) goes
\* to reportData, then the view is looked up in id2table and its rendering
\* goes to reportRaw; the widget's state is left as it is.  The outcome is
\* what reached the report and the error raised on the way, if any.
sendReport(w) ==
    LET qTableInstance == currentWidget(w)
        id == Get(w.table2id, qTableInstance)
        data == Get(w.data, id)
    IN  IF id \in DOMAIN w.id2table
        THEN [report |-> <<data, w.id2table[id]>>, raised |-> None]
        ELSE [report |-> <<data>>, raised |-> KeyError]

\* btnResetSortClicked with the adapter left as it is.
btnResetSortClickedKeepsAdapter(w) == w

\* OWDataTable.btnResetSortClicked
btnResetSortClicked(w) ==
    LET table == currentWidget(w)
    IN  IF table # None
        THEN LET id == w.table2id[table]
                 d == w.data[id]
             IN  setTable(w, table, d)
        ELSE w

\* cbShowMetaClicked with the columns hidden or shown and the flag kept.
cbShowMetaClickedKeepsFlag(w) ==
    IF Get(w.table2id, currentWidget(w)) \in DOMAIN w.showMetas
    THEN [w EXCEPT
            !.views[currentWidget(w)].hidden =
                IF w.showMetas[w.table2id[currentWidget(w)]].shown
                THEN @ \cup Range(w.showMetas[w.table2id[currentWidget(w)]].columns)
                ELSE @ \ Range(w.showMetas[w.table2id[currentWidget(w)]].columns)]
    ELSE w

\* OWDataTable.cbShowMetaClicked: the callback of the "Show meta attributes"
\* check box.  With no entry for the current tab the handler raises (show is
\* unbound at line 666) and has changed nothing.
cbShowMetaClicked(w) ==
    IF Get(w.table2id, currentWidget(w)) \in DOMAIN w.showMetas
    THEN [w EXCEPT
            !.showMetas[w.table2id[currentWidget(w)]].shown = ~@,
            !.views[currentWidget(w)].hidden =
                IF w.showMetas[w.table2id[currentWidget(w)]].shown
                THEN @ \cup Range(w.showMetas[w.table2id[currentWidget(w)]].columns)
                ELSE @ \ Range(w.showMetas[w.table2id[currentWidget(w)]].columns)]
    ELSE w

\* The user toggles "Show meta attributes": the check box sets self.showMeta
\* and calls its callback.
cbShowMetaToggled(w) == cbShowMetaClicked([w EXCEPT !.showMeta = ~@])

\* OWGUI.setStopper(self, sendButton, cb, "selectionChangedFlag", commit):
\* the button is disabled while the check box is checked, and checking the
\* box with a change pending commits.
setStopper(w, checked) ==
    LET w1 == [w EXCEPT !.sendEnabled = ~checked]
    IN  IF checked /\ w1.selectionChangedFlag THEN commit(w1) ELSE w1

\* The "Commit on any change" check box toggled: autoCommit is set, the
\* callback commitIf runs, then the stopper.
autoCommitToggled(w) ==
    LET checked == ~w.autoCommit
        w1 == [w EXCEPT !.autoCommit = checked]
    IN  setStopper(commitIf(w1), checked)

\* The user changes the row selection of the current view: the selection
\* model's selectionChanged runs updateSelection.
selectionChanged(w, rows) ==
    LET table == currentWidget(w)
    IN  updateSelection([w EXCEPT !.views[table].selected = rows])

(***************************************************************************)
(* The datasets that arrive on the widget's input.                         *)
(***************************************************************************)
\* No rows; an ordinary feature and a meta.
TEmpty == Table("empty", Domain(<<FeatureX>>, None, <<>>, <<FeatureM>>), <<>>)

\* Two rows of one ordinary feature, the second value missing.
TPair ==
    Table("pair", Domain(<<FeatureX>>, None, <<>>, <<>>),
          <<[x |-> Val(1)], [x |-> Missing]>>)

\* Three rows of an ordinary feature and a meta; no name.
TTriple ==
    Table("", Domain(<<FeatureX>>, None, <<>>, <<FeatureM>>),
          <<[x |-> Val(1), m |-> Val(0)],
            [x |-> Missing, m |-> Val(0)],
            [x |-> Val(0), m |-> Val(1)]>>)

\* The datasets sent to a widget with two connections, and to one with one.
InputTables == {TEmpty, TPair}

OneTables == {TEmpty, TPair, TTriple}

(***************************************************************************)
(* The adapter under test, on its own.                                     *)
(***************************************************************************)
VARIABLES
    examples,   \* the dataset given to the adapter under test
    adapter,    \* the ExampleTableModel built from it (None before __init__)
    lastSort,   \* the (column, order) of the last sort call, or None
    emitted     \* the signals the adapter's last call emitted

avars == <<examples, adapter, lastSort, emitted>>

(***************************************************************************)
(* A function of the module called on its own.                             *)
(***************************************************************************)
VARIABLES
    call,       \* the function called and its arguments (None: no call)
    result      \* what the call returned (None before it returns)

pvars == <<call, result>>

(***************************************************************************)
(* The widget's state.                                                     *)
(***************************************************************************)
VARIABLES
    data,                 \* self.data: id -> ExampleTable
    showMetas,            \* self.showMetas: id -> (shown, meta column list)
    id2table,             \* self.id2table: id -> view
    table2id,             \* self.table2id: view -> id
    tabs,                 \* self.tabs: the pages of the tab strip, in order
    currentIndex,         \* self.tabs.currentIndex(), -1 without tabs
    views,                \* the state of each view in use
    autoCommit,           \* self.autoCommit
    sendEnabled,          \* self.sendButton.isEnabled()
    selectionChangedFlag, \* self.selectionChangedFlag
    selectedData,         \* the last value sent on "Selected Data"
    otherData,            \* the last value sent on "Other Data"
    showMeta,             \* self.showMeta (cbShowMeta checked)
    cbShowMetaEnabled,    \* self.cbShowMeta.isEnabled()
    showAttributeLabels,  \* self.showAttributeLabels (cbShowAttLbls checked)
    timers,               \* the views with a deferred redraw p pending
    nsent                 \* send() calls made by the last event's handler

wvars == <<data, showMetas, id2table, table2id, tabs, currentIndex, views,
           autoCommit, sendEnabled, selectionChangedFlag, selectedData,
           otherData, showMeta, cbShowMetaEnabled, showAttributeLabels, timers,
           nsent>>

(***************************************************************************)
(* The widget's colour settings.                                           *)
(***************************************************************************)
VARIABLES
    distColorRgb,         \* self.distColorRgb (a persisted setting)
    distColor,            \* self.distColor: the colour the bars are drawn in
    colorSettings,        \* self.colorSettings
    selectedSchemaIndex,  \* self.selectedSchemaIndex (a persisted setting)
    discPalette,          \* self.discPalette
    showDistributions,    \* self.showDistributions
    rendered              \* the views the last handler of the colour box
                          \* gave a new item delegate or reset

cvars == <<distColorRgb, distColor, colorSettings, selectedSchemaIndex,
           discPalette, showDistributions, rendered>>

vars == <<wvars, avars, pvars, cvars>>

\* The widget state at the start of an event handler.
Self ==
    [data |-> data, showMetas |-> showMetas, id2table |-> id2table,
     table2id |-> table2id, tabs |-> tabs, currentIndex |-> currentIndex,
     views |-> views, autoCommit |-> autoCommit,
     sendEnabled |-> sendEnabled, selectionChangedFlag |-> selectionChangedFlag,
     selectedData |-> selectedData, otherData |-> otherData,
     showMeta |-> showMeta, cbShowMetaEnabled |-> cbShowMetaEnabled,
     showAttributeLabels |-> showAttributeLabels, timers |-> timers,
     nsent |-> 0, raised |-> None]

\* The widget state an event handler leaves, but for the pending redraws.
Leaves(w) ==
    /\ data' = w.data
    /\ showMetas' = w.showMetas
    /\ id2table' = w.id2table
    /\ table2id' = w.table2id
    /\ tabs' = w.tabs
    /\ currentIndex' = w.currentIndex
    /\ views' = w.views
    /\ autoCommit' = w.autoCommit
    /\ sendEnabled' = w.sendEnabled
    /\ selectionChangedFlag' = w.selectionChangedFlag
    /\ selectedData' = w.selectedData
    /\ otherData' = w.otherData
    /\ showMeta' = w.showMeta
    /\ cbShowMetaEnabled' = w.cbShowMetaEnabled
    /\ showAttributeLabels' = w.showAttributeLabels
    /\ nsent' = w.nsent

\* The widget state after an event handler and the deferred redraws it
\* scheduled, which are due 50 ms later: none is pending at the next event.
Returns(w) == Leaves(w) /\ timers' = {}

\* The widget state right after an event handler, its redraws pending.
Deferred(w) == Leaves(w) /\ timers' = w.timers

\* OWDataTable.__init__
WInit ==
    /\ data = EmptyDict
    /\ showMetas = EmptyDict
    /\ id2table = EmptyDict
    /\ table2id = EmptyDict
    /\ tabs = <<>>
    /\ currentIndex = -1
    /\ views = EmptyDict
    /\ autoCommit = FALSE
    /\ sendEnabled = TRUE
    /\ selectionChangedFlag = FALSE
    /\ selectedData = None
    /\ otherData = None
    /\ showMeta = TRUE
    /\ cbShowMetaEnabled = FALSE
    /\ showAttributeLabels = TRUE
    /\ timers = {}
    /\ nsent = 0

\* The bare adapter is not part of the widget's runs.
AIdle ==
    /\ examples = TEmpty
    /\ adapter = None
    /\ lastSort = None
    /\ emitted = <<>>

\* No function is called on its own in the widget's runs.
PIdle ==
    /\ call = None
    /\ result = None

\* QColor(r, g, b, a=255)
QColor(rgb) ==
    [red |-> rgb[1], green |-> rgb[2], blue |-> rgb[3],
     alpha |-> IF Len(rgb) > 3 THEN rgb[4] ELSE 255]

\* The palette of the colour dialog for the colour settings and the schema.
getDiscretePalette(settings, index) == [schemas |-> settings, index |-> index]

\* __init__ (332-338, 383-384) with no settings saved: the colour settings
\* of a new widget.
CIdle ==
    /\ distColorRgb = <<220, 220, 220, 255>>
    /\ distColor = QColor(<<220, 220, 220, 255>>)
    /\ colorSettings = None
    /\ selectedSchemaIndex = 0
    /\ discPalette = getDiscretePalette(None, 0)
    /\ showDistributions = TRUE
    /\ rendered = {}

Init == WInit /\ AIdle /\ PIdle /\ CIdle

\* The canvas delivers a dataset, or None, on connection id.
Dataset(d, id) ==
    /\ Returns(dataset(Self, d, id))
    /\ UNCHANGED <<avars, pvars, cvars>>

\* The user clicks another tab.
TabClicked(index) ==
    /\ index \in 0..(Len(tabs) - 1)
    /\ index # currentIndex
    /\ Returns(setCurrentIndex(Self, index))
    /\ UNCHANGED <<avars, pvars, cvars>>

\* The user changes the selected rows of the current view.
SelectionChanged(rows) ==
    /\ currentWidget(Self) # None
    /\ rows \subseteq 0..(rowCount(views[currentWidget(Self)].model) - 1)
    /\ rows # views[currentWidget(Self)].selected
    /\ Returns(selectionChanged(Self, rows))
    /\ UNCHANGED <<avars, pvars, cvars>>

\* The user clicks the header of a column of the current view.
SectionClicked(index) ==
    /\ currentWidget(Self) # None
    /\ index \in 0..(columnCount(views[currentWidget(Self)].model) - 1)
    /\ Returns(sectionClicked(Self, index,
                              views[currentWidget(Self)].sortConnections))
    /\ UNCHANGED <<avars, pvars, cvars>>

\* The user clicks "Restore Order of Examples".
BtnResetSortClicked ==
    /\ currentWidget(Self) # None =>
          views[currentWidget(Self)].sortConnections < MaxConnections
    /\ Returns(btnResetSortClicked(Self))
    /\ UNCHANGED <<avars, pvars, cvars>>

\* The user clicks "Send selections" (an enabled button only).
SendButtonClicked ==
    /\ sendEnabled
    /\ Returns(commit(Self))
    /\ UNCHANGED <<avars, pvars, cvars>>

\* The user toggles "Commit on any change".
AutoCommitToggled ==
    /\ Returns(autoCommitToggled(Self))
    /\ UNCHANGED <<avars, pvars, cvars>>

\* The user toggles "Show meta attributes" (an enabled check box only).
CbShowMetaClicked ==
    /\ cbShowMetaEnabled
    /\ Returns(cbShowMetaToggled(Self))
    /\ UNCHANGED <<avars, pvars, cvars>>

\* The user toggles "Show attribute labels (if any)".
CbShowAttLabelsClicked ==
    /\ Returns(cbShowAttLabelsToggled(Self))
    /\ UNCHANGED <<avars, pvars, cvars>>

\* Two connections; a header is clicked and the order restored only while
\* one dataset is connected.
Next ==
    \/ \E d \in InputTables \cup {None}, id \in Ids : Dataset(d, id)
    \/ \E index \in 0..(Cardinality(Ids) - 1) : TabClicked(index)
    \/ \E rows \in SUBSET (0..(MaxRows - 1)) : SelectionChanged(rows)
    \/ /\ Cardinality(DOMAIN data) = 1
       /\ \E index \in 0..(MaxAttrs + MaxClassVars + MaxMetas) : SectionClicked(index)
    \/ /\ Cardinality(DOMAIN data) = 1
       /\ BtnResetSortClicked
    \/ SendButtonClicked
    \/ AutoCommitToggled

Spec == Init /\ [][Next]_vars

\* One connection, every event at any time.
NextOne ==
    \/ \E d \in OneTables \cup {None} : Dataset(d, ConnId("a"))
    \/ \E rows \in SUBSET (0..(MaxRows - 1)) : SelectionChanged(rows)
    \/ \E index \in 0..(MaxAttrs + MaxClassVars + MaxMetas) : SectionClicked(index)
    \/ BtnResetSortClicked
    \/ SendButtonClicked
    \/ AutoCommitToggled

SpecOne == Init /\ [][NextOne]_vars

\* Two connections, the tabs and the meta attribute columns: no header click,
\* auto-commit left off.
NextMeta ==
    \/ \E d \in InputTables \cup {None}, id \in Ids : Dataset(d, id)
    \/ \E index \in 0..(Cardinality(Ids) - 1) : TabClicked(index)
    \/ \E rows \in SUBSET (0..(MaxRows - 1)) : SelectionChanged(rows)
    \/ CbShowMetaClicked
    \/ BtnResetSortClicked

SpecMeta == Init /\ [][NextMeta]_vars

(***************************************************************************)
(* One connection and the deferred redraws: an event may arrive while      *)
(* redraws are pending, and a pending redraw may fire after its view was   *)
(* removed from the tabs or its adapter replaced.                          *)
(***************************************************************************)
MaxPending == 2

\* The views that left the widget with a redraw pending.
Orphans == timers \ DOMAIN views

DatasetDeferred(d, id) ==
    /\ Cardinality(Orphans) < MaxPending
    /\ Deferred(dataset(Self, d, id))
    /\ UNCHANGED <<avars, pvars, cvars>>

SectionClickedDeferred(index) ==
    /\ currentWidget(Self) # None
    /\ index \in 0..(columnCount(views[currentWidget(Self)].model) - 1)
    /\ Deferred(sectionClicked(Self, index,
                               views[currentWidget(Self)].sortConnections))
    /\ UNCHANGED <<avars, pvars, cvars>>

BtnResetSortClickedDeferred ==
    /\ currentWidget(Self) # None =>
          views[currentWidget(Self)].sortConnections < MaxConnections
    /\ Deferred(btnResetSortClicked(Self))
    /\ UNCHANGED <<avars, pvars, cvars>>

CbShowAttLabelsClickedDeferred ==
    /\ Deferred(cbShowAttLabelsToggled(Self))
    /\ UNCHANGED <<avars, pvars, cvars>>

\* The timer of a pending redraw fires.  A view of the tabs exists; one
\* that left the widget may have been deleted or not.
TimerFires(table, deleted) ==
    /\ table \in timers
    /\ table \in DOMAIN views => ~deleted
    /\ Deferred([p(Self, table, deleted) EXCEPT !.timers = @ \ {table}])
    /\ UNCHANGED <<avars, pvars, cvars>>

NextTimers ==
    \/ \E d \in {TPair, None} : DatasetDeferred(d, ConnId("a"))
    \/ \E index \in 0..(MaxAttrs + MaxClassVars + MaxMetas) :
          SectionClickedDeferred(index)
    \/ BtnResetSortClickedDeferred
    \/ CbShowAttLabelsClickedDeferred
    \/ \E n \in 1..(MaxPending + 1), deleted \in BOOLEAN :
          TimerFires(View(n), deleted)

SpecTimers == Init /\ [][NextTimers]_vars

(***************************************************************************)
(* The adapter on its own: built from a drawn dataset, then sorted.        *)
(***************************************************************************)
AInit ==
    /\ examples \in SortTables \cup ShapeTables
    /\ adapter = None
    /\ lastSort = None
    /\ emitted = <<>>
    /\ WInit
    /\ PIdle
    /\ CIdle

AConstruct ==
    /\ adapter = None
    /\ adapter' = ExampleTableModel(examples, DomainBasicAttrStat(examples))
    /\ emitted' = <<>>
    /\ UNCHANGED <<examples, lastSort>>
    /\ UNCHANGED <<wvars, pvars, cvars>>

ASort(column, order) ==
    /\ adapter # None
    /\ column \in 0..(columnCount(adapter) - 1)
    /\ adapter' = sort(adapter, column, order)
    /\ lastSort' = [column |-> column, order |-> order]
    /\ emitted' = sortSignals(adapter)
    /\ UNCHANGED examples
    /\ UNCHANGED <<wvars, pvars, cvars>>

ANext ==
    \/ AConstruct
    \/ \E column \in 0..(MaxAttrs + MaxClassVars + MaxMetas),
          order \in {AscendingOrder, DescendingOrder} : ASort(column, order)

SpecAdapter == AInit /\ [][ANext]_vars

(***************************************************************************)
(* The adapter of a dataset whose features have annotations, and its       *)
(* show_attr_labels property set to either value.                          *)
(***************************************************************************)
LabelKeys == {<<"k">>, <<"<">>}

\* The annotations of a feature: some of the keys, each with a value.
LabelAnnotations ==
    UNION {[K -> {<<>>, <<"a">>}] : K \in SUBSET LabelKeys}

\* An ordinary feature and a meta, each with annotations; no rows or one.
LabelTables ==
    {Table("t", Domain(<<Feature(<<"x">>, TRUE, ax)>>, None, <<>>,
                       <<Feature(<<"m">>, TRUE, am)>>), rows) :
        ax \in LabelAnnotations, am \in LabelAnnotations,
        rows \in {<<>>, <<[n \in {<<"x">>, <<"m">>} |-> Val(0)]>>}}

LabelInit ==
    /\ examples \in LabelTables
    /\ adapter = None
    /\ lastSort = None
    /\ emitted = <<>>
    /\ WInit
    /\ PIdle
    /\ CIdle

\* The adapter at the start of a call.
AdapterSelf == [model |-> adapter, emitted |-> <<>>]

ASetShowAttrLabels(val) ==
    /\ adapter # None
    /\ adapter' = set_show_attr_labels(AdapterSelf, val).model
    /\ emitted' = set_show_attr_labels(AdapterSelf, val).emitted
    /\ UNCHANGED <<examples, lastSort>>
    /\ UNCHANGED <<wvars, pvars, cvars>>

LabelNext ==
    \/ AConstruct
    \/ \E val \in BOOLEAN : ASetShowAttrLabels(val)

SpecLabels == LabelInit /\ [][LabelNext]_vars

(***************************************************************************)
(* The adapter of a two-row dataset (a continuous feature x, a discrete    *)
(* target d), sorted by x and with values stored through setData.          *)
(***************************************************************************)
MaxStored == 2

StoredRoles == {"UserRole", "ToolTipRole", "DisplayRole", "TableValueRole"}

StoredValues == {QVariant(0), QVariant(1)}

OverlayTables ==
    {Table("t", Domain(<<Feature("x", TRUE, NoLabels)>>,
                       Feature("d", FALSE, NoLabels), <<>>, <<>>),
           <<[x |-> Val(1), d |-> Val(0)], [x |-> Val(0), d |-> v]>>) :
        v \in Values}

OverlayInit ==
    /\ examples \in OverlayTables
    /\ adapter = None
    /\ lastSort = None
    /\ emitted = <<>>
    /\ WInit
    /\ PIdle
    /\ CIdle

ASetData(row, col, variant, role) ==
    /\ adapter # None
    /\ \/ <<row, col, role>> \in DOMAIN adapter.other_data
       \/ Cardinality(DOMAIN adapter.other_data) < MaxStored
    /\ adapter' = setData(AdapterSelf, row, col, variant, role).model
    /\ emitted' = setData(AdapterSelf, row, col, variant, role).emitted
    /\ UNCHANGED <<examples, lastSort>>
    /\ UNCHANGED <<wvars, pvars, cvars>>

OverlayNext ==
    \/ AConstruct
    \/ \E order \in {AscendingOrder, DescendingOrder} : ASort(0, order)
    \/ \E row \in 0..1, col \in 0..1, variant \in StoredValues,
          role \in StoredRoles : ASetData(row, col, variant, role)

SpecOverlay == OverlayInit /\ [][OverlayNext]_vars

(***************************************************************************)
(* ExampleTableModel.data called on an adapter built from a two-row        *)
(* dataset (a continuous feature x, a discrete target d) and a statistics  *)
(* container of any length up to its two columns, after a sort by x.       *)
(***************************************************************************)
FeatureD == Feature("d", FALSE, NoLabels)

Stats == {st \in [min : 0..MaxStat, max : 0..MaxStat] : st.min <= st.max}

DataDists == {<<>>} \cup {<<st>> : st \in Stats} \cup {<<st, None>> : st \in Stats}

DataTables ==
    {Table("t", Domain(<<FeatureX>>, FeatureD, <<>>, <<>>), <<r1, r2>>) :
        r1, r2 \in [x : Values, d : Values]}

Roles == recognizedRoles \cup {"UserRole"}

DataCalls ==
    [fn : {"data"}, examples : DataTables, dist : DataDists,
     order : {AscendingOrder, DescendingOrder},
     row : 0..1, col : 0..1, role : Roles]

\* The adapter the call is made on.
CalledModel == sort(ExampleTableModel(call.examples, call.dist), 0, call.order)

DataInit ==
    /\ call \in DataCalls
    /\ result = None
    /\ WInit
    /\ AIdle
    /\ CIdle

DataReturns ==
    /\ call # None /\ call.fn = "data"
    /\ result = None
    /\ result' = Some(model_data(CalledModel, call.row, call.col, call.role))
    /\ UNCHANGED <<call, wvars, avars, cvars>>

SpecData == DataInit /\ [][DataReturns]_vars

(***************************************************************************)
(* OWDataTable.setInfo: the texts of the info box for a dataset (or None). *)
(* The texts are only put together and shown: they are TLA+ strings.       *)
(***************************************************************************)
\* sp with "no" + "" for an empty list.
spSingular(l, capitalize) ==
    IF Len(l) = 0 THEN (IF capitalize THEN <<"No", "">> ELSE <<"no", "">>)
    ELSE IF Len(l) = 1 THEN <<ToString(Len(l)), "">>
    ELSE <<ToString(Len(l)), "s">>

\* sp(l, capitalize=False): the count word and the plural suffix
sp(l, capitalize) ==
    IF Len(l) = 0 THEN (IF capitalize THEN <<"No", "s">> ELSE <<"no", "s">>)
    ELSE IF Len(l) = 1 THEN <<ToString(Len(l)), "">>
    ELSE <<ToString(Len(l)), "s">>

\* orange.Preprocessor_takeMissing(data): the examples that hold a missing
\* value
Preprocessor_takeMissing(tbl) ==
    SelectSeq(tbl.rows, LAMBDA ex : \E name \in DOMAIN ex : isSpecial(ex[name]))

\* The percentage with the division done for an empty dataset too.
percentMissingUnguarded(tbl) ==
    Div(100 * Len(Preprocessor_takeMissing(tbl)), Len(tbl.rows))

\* len(data) and 100.*len(missData)/len(data): the number 0 for an empty
\* dataset (kept as 0/1), the quotient otherwise
percentMissing(tbl) ==
    IF Len(tbl.rows) = 0 THEN [num |-> 0, den |-> 1]
    ELSE Div(100 * Len(Preprocessor_takeMissing(tbl)), Len(tbl.rows))

\* "%.1f" % q: q rounded to tenths (to the nearest; no quotient of the
\* datasets considered lies half way between two tenths)
Tenths(q) == (20 * q.num + q.den) \div (2 * q.den)

FormatF1(q) == ToString(Tenths(q) \div 10) \o "." \o ToString(Tenths(q) % 10)

\* The class line of the info box.
infoClass(classVar) ==
    IF classVar # None
    THEN IF classVar.varType = "Discrete"
         THEN "Discrete class with " \o sp(classVar.values, FALSE)[1]
              \o " value" \o sp(classVar.values, FALSE)[2] \o "."
         ELSE IF classVar.varType = "Continuous"
         THEN "Continuous class."
         ELSE "Class is neither discrete nor continuous."
    ELSE "Classless domain."

\* setInfo(data): the five texts set, or the error raised on the way.
setInfo(tbl) ==
    IF tbl = None
    THEN [infoEx |-> "No data on input.", infoMiss |-> "", infoAttr |-> "",
          infoMeta |-> "", infoClass |-> ""]
    ELSE IF percentMissing(tbl) = ZeroDivisionError THEN ZeroDivisionError
    ELSE [infoEx |-> sp(tbl.rows, FALSE)[1] \o " example"
                       \o sp(tbl.rows, FALSE)[2] \o ",",
          infoMiss |-> ToString(Len(Preprocessor_takeMissing(tbl))) \o " ("
                       \o FormatF1(percentMissing(tbl)) \o "%"
                       \o ") with missing values.",
          infoAttr |-> sp(tbl.domain.attributes, TRUE)[1] \o " attribute"
                       \o sp(tbl.domain.attributes, TRUE)[2] \o ",",
          infoMeta |-> sp(tbl.domain.metas, FALSE)[1] \o " meta attribute"
                       \o sp(tbl.domain.metas, FALSE)[2] \o ".",
          infoClass |-> infoClass(tbl.domain.class_var)]

\* A class feature: its kind and, for a discrete one, its values.
ClassFeature(varType, values) ==
    [name |-> "y", varType |-> varType, values |-> values]

InfoClassVars ==
    {None}
    \cup {ClassFeature("Discrete", PyRange(n)) : n \in 0..MaxVal + 1}
    \cup {ClassFeature(t, <<>>) : t \in {"Continuous", "Other"}}

InfoFeatures(prefix, n) ==
    [i \in 1..n |-> Feature(prefix \o ToString(i), TRUE, NoLabels)]

\* The names of the features an example has a value of.
InfoNames(n, y) ==
    {"a" \o ToString(i) : i \in 1..n} \cup (IF y = None THEN {} ELSE {"y"})

InfoTables ==
    {Table("", Domain(InfoFeatures("a", n[1]), y, <<>>,
                      InfoFeatures("m", n[2])), rows) :
        <<n, y, rows>> \in
            UNION {{<<k, c, r>> :
                       r \in Seqs([InfoNames(k[1], c) -> {Val(0), Missing}],
                                  MaxRows)} :
                   k \in (0..MaxAttrs) \X (0..MaxMetas), c \in InfoClassVars}}

InfoInit ==
    /\ call \in [fn : {"setInfo"}, data : InfoTables \cup {None}]
    /\ result = None
    /\ WInit
    /\ AIdle
    /\ CIdle

InfoReturns ==
    /\ call # None /\ call.fn = "setInfo"
    /\ result = None
    /\ result' = Some(setInfo(call.data))
    /\ UNCHANGED <<call, wvars, avars, cvars>>

SpecInfo == InfoInit /\ [][InfoReturns]_vars

(***************************************************************************)
(* TableViewWithCopy.copy_selection_to_clipboard: the selected rows of a   *)
(* view written by csv.writer in the dialects "excel" and "excel-tab"      *)
(* (QUOTE_MINIMAL, quotes doubled, lines ended by "\r\n").                 *)
(***************************************************************************)
\* Whether the writer must put a field in quotes.
needsQuotes(field, delimiter) ==
    \E i \in 1..Len(field) : field[i] \in {delimiter, "\"", "\r", "\n"}

RECURSIVE doubleQuotes(_)
doubleQuotes(field) ==
    IF Len(field) = 0 THEN <<>>
    ELSE (IF Head(field) = "\"" THEN <<"\"", "\"">> ELSE <<Head(field)>>)
         \o doubleQuotes(Tail(field))

writeField(field, delimiter) ==
    IF needsQuotes(field, delimiter)
    THEN <<"\"">> \o doubleQuotes(field) \o <<"\"">>
    ELSE field

\* writerow with every field written as it is.
writerowUnquoted(line, delimiter) ==
    join(<<delimiter>>, line) \o <<"\r", "\n">>

\* csv.writer(...).writerow(line); a line of one empty field is written as ""
writerow(line, delimiter) ==
    IF Len(line) = 1 /\ Len(line[1]) = 0 THEN <<"\"", "\"", "\r", "\n">>
    ELSE join(<<delimiter>>,
              [i \in 1..Len(line) |-> writeField(line[i], delimiter)])
         \o <<"\r", "\n">>

\* The line of a selected row: the display text of each column.
copyLine(model, row) ==
    [i \in 1..columnCount(model) |->
        model_data(model, row, i - 1, "DisplayRole").variant]

\* What the writer has written after the loop over the selected rows.
getvalue(model, rows, delimiter) ==
    join(<<>>, [k \in 1..Len(rows) |->
                   writerow(copyLine(model, rows[k]), delimiter)])

\* copy_selection_to_clipboard with the plain text taken from the csv lines.
copy_selection_to_clipboardPlainCsv(model, rows) ==
    [format \in {"text/csv", "text/tab-separated-values", "text/plain"} |->
        IF format = "text/tab-separated-values" THEN getvalue(model, rows, "\t")
        ELSE getvalue(model, rows, ",")]

\* copy_selection_to_clipboard(selection_model): the mime data put on the
\* clipboard for the rows selection_model.selectedRows(0) of the view
copy_selection_to_clipboard(model, rows) ==
    [format \in {"text/csv", "text/tab-separated-values", "text/plain"} |->
        IF format = "text/csv" THEN getvalue(model, rows, ",")
        ELSE getvalue(model, rows, "\t")]

\* The texts of the text column of a copied dataset.
CopyTexts == {<<>>, <<"a">>, <<",">>, <<"\t">>, <<"\"">>, <<"\n">>}

FeatureT == Feature("t", FALSE, NoLabels)

\* Datasets of a number column and a text column, and of a text column only.
CopyTables ==
    {Table("", Domain(<<FeatureX>>, None, <<>>, <<FeatureT>>), rows) :
        rows \in Seqs([x : Values, t : {Text(str) : str \in CopyTexts}],
                      MaxCopyRows)}
    \cup {Table("", Domain(<<>>, None, <<>>, <<FeatureT>>), rows) :
            rows \in Seqs([t : {Text(str) : str \in CopyTexts}], MaxCopyRows)}

\* selectedRows(0): rows of the view, each once, in some order.
SelectedRows(n) ==
    {rows \in Seqs(0..n - 1, n) :
        \A i, j \in 1..Len(rows) : rows[i] = rows[j] => i = j}

CopyCalls ==
    {[fn |-> "copy_selection_to_clipboard", examples |-> tbl, order |-> order,
      rows |-> rows] :
        <<tbl, order, rows>> \in
            UNION {{<<t, o, r>> : o \in {AscendingOrder, DescendingOrder},
                                  r \in SelectedRows(Len(t.rows))} :
                   t \in CopyTables}}

\* The adapter of the view: the dataset sorted by its first column.
CopiedModel ==
    sort(ExampleTableModel(call.examples, DomainBasicAttrStat(call.examples)),
         0, call.order)

CopyInit ==
    /\ call \in CopyCalls
    /\ result = None
    /\ WInit
    /\ AIdle
    /\ CIdle

CopyReturns ==
    /\ call # None /\ call.fn = "copy_selection_to_clipboard"
    /\ result = None
    /\ result' = Some(copy_selection_to_clipboard(CopiedModel, call.rows))
    /\ UNCHANGED <<call, wvars, avars, cvars>>

SpecCopy == CopyInit /\ [][CopyReturns]_vars

(***************************************************************************)
(* TableViewWithCopy.keyPressEvent on a view with or without an adapter.   *)
(* self is the view: its adapter (model), the rows of its selection, what  *)
(* the clipboard holds, whether the event went on to QTableView, what was  *)
(* written to stderr and the exception the handler let out (None: none).   *)
(***************************************************************************)
\* A character outside ASCII, as one character of a text.
NonAscii == "U+00E9"

AttributeError == [raised |-> "AttributeError"]

UnicodeEncodeError == [raised |-> "UnicodeEncodeError"]

\* The exception copy_selection_to_clipboard raises, or None: a view without
\* adapter has no selection model (selectedRows of None), and the writer
\* cannot encode a unicode field with a character outside ASCII.
copy_selection_raises(model, rows) ==
    IF model = None THEN AttributeError
    ELSE IF \E k \in 1..Len(rows) : \E i \in 1..columnCount(model) :
               NonAscii \in Range(copyLine(model, rows[k])[i])
    THEN UnicodeEncodeError
    ELSE None

\* keyPressEvent with the exception of the export let out.
keyPressEventLetsRaise(self, event) ==
    IF event = "QKeySequence.Copy"
    THEN IF copy_selection_raises(self.model, self.rows) # None
         THEN [self EXCEPT
                 !.raised = copy_selection_raises(self.model, self.rows)]
         ELSE [self EXCEPT !.clipboard =
                 Some(copy_selection_to_clipboard(self.model, self.rows))]
    ELSE [self EXCEPT !.forwarded = TRUE]

\* TableViewWithCopy.keyPressEvent(event)
keyPressEvent(self, event) ==
    IF event = "QKeySequence.Copy"
    THEN IF copy_selection_raises(self.model, self.rows) # None
         THEN [self EXCEPT
                 !.stderr = @ \o
                     <<copy_selection_raises(self.model, self.rows)>>]
         ELSE [self EXCEPT !.clipboard =
                 Some(copy_selection_to_clipboard(self.model, self.rows))]
    ELSE [self EXCEPT !.forwarded = TRUE]

KeyEvents == {"QKeySequence.Copy", "QKeySequence.Paste", "Qt.Key_Down"}

\* Datasets of one text column.
KeyTables ==
    {Table("", Domain(<<>>, None, <<>>, <<FeatureT>>), rows) :
        rows \in Seqs([t : {Text(<<"a">>), Text(<<NonAscii>>)}], MaxCopyRows)}

\* What the clipboard holds before the key is pressed.
KeyClipboards == {None, Some([format \in {"text/plain"} |-> <<"b">>])}

KeyCalls ==
    {[fn |-> "keyPressEvent", event |-> event, examples |-> tbl,
      rows |-> rows, clipboard |-> clipboard] :
        <<event, tbl, rows, clipboard>> \in
            UNION {{<<e, t, r, c>> :
                       e \in KeyEvents, c \in KeyClipboards,
                       r \in (IF t = None THEN {<<>>}
                              ELSE SelectedRows(Len(t.rows)))} :
                   t \in KeyTables \cup {None}}}

\* The view the key is pressed in.
KeySelf ==
    [model |-> IF call.examples = None THEN None
               ELSE ExampleTableModel(call.examples,
                                      DomainBasicAttrStat(call.examples)),
     rows |-> call.rows, clipboard |-> call.clipboard, forwarded |-> FALSE,
     stderr |-> <<>>, raised |-> None]

KeyInit ==
    /\ call \in KeyCalls
    /\ result = None
    /\ WInit
    /\ AIdle
    /\ CIdle

KeyPressReturns ==
    /\ call # None /\ call.fn = "keyPressEvent"
    /\ result = None
    /\ result' = Some(keyPressEvent(KeySelf, call.event))
    /\ UNCHANGED <<call, wvars, avars, cvars>>

SpecKeys == KeyInit /\ [][KeyPressReturns]_vars

(***************************************************************************)
(* The colour box: the colour dialog, the check box of the distribution   *)
(* bars, and the widget closed and opened again with its settings.  Under  *)
(* SpecColors no dataset is connected, under SpecRedraw there are tabs     *)
(* whose views cbShowDistributions redraws.                                *)
(***************************************************************************)
ColorSelf ==
    [distColorRgb |-> distColorRgb, distColor |-> distColor,
     colorSettings |-> colorSettings,
     selectedSchemaIndex |-> selectedSchemaIndex, discPalette |-> discPalette,
     showDistributions |-> showDistributions, rendered |-> {}]

ColorReturns(c) ==
    /\ distColorRgb' = c.distColorRgb
    /\ distColor' = c.distColor
    /\ colorSettings' = c.colorSettings
    /\ selectedSchemaIndex' = c.selectedSchemaIndex
    /\ discPalette' = c.discPalette
    /\ showDistributions' = c.showDistributions
    /\ rendered' = c.rendered

\* OWDataTable.cbShowDistributions: every tab's view gets a new item
\* delegate and the current one is reset; w is the widget with its tabs
cbShowDistributions(c, w) == [c EXCEPT !.rendered = @ \cup Range(w.tabs)]

\* setColors with the blue channel stored in the third slot.
setColorsStoresBlue(c, w, dlg, accepted) ==
    IF accepted
    THEN LET stored ==
                 [c EXCEPT
                    !.colorSettings = Some(dlg.schemas),
                    !.selectedSchemaIndex = dlg.selectedSchemaIndex,
                    !.discPalette = getDiscretePalette(Some(dlg.schemas),
                                                       dlg.selectedSchemaIndex),
                    !.distColor = dlg.color,
                    !.distColorRgb = <<dlg.color.red, dlg.color.green,
                                       dlg.color.blue>>]
         IN  IF stored.showDistributions
             THEN cbShowDistributions(stored, w) ELSE stored
    ELSE c

\* setColors with the views redrawn when the dialog was cancelled too.
setColorsAlwaysRedraws(c, w, dlg, accepted) ==
    LET stored ==
            IF accepted
            THEN [c EXCEPT
                    !.colorSettings = Some(dlg.schemas),
                    !.selectedSchemaIndex = dlg.selectedSchemaIndex,
                    !.discPalette = getDiscretePalette(Some(dlg.schemas),
                                                       dlg.selectedSchemaIndex),
                    !.distColor = dlg.color,
                    !.distColorRgb = <<dlg.color.red, dlg.color.green,
                                       dlg.color.red>>]
            ELSE c
    IN  IF stored.showDistributions
        THEN cbShowDistributions(stored, w) ELSE stored

\* setColors(): dlg is what the user left in the dialog, accepted is
\* dlg.exec_(), w is the widget with its tabs
setColors(c, w, dlg, accepted) ==
    IF accepted
    THEN LET stored ==
                 [c EXCEPT
                    !.colorSettings = Some(dlg.schemas),
                    !.selectedSchemaIndex = dlg.selectedSchemaIndex,
                    !.discPalette = getDiscretePalette(Some(dlg.schemas),
                                                       dlg.selectedSchemaIndex),
                    !.distColor = dlg.color,
                    !.distColorRgb = <<dlg.color.red, dlg.color.green,
                                       dlg.color.red>>]
         IN  IF stored.showDistributions
             THEN cbShowDistributions(stored, w) ELSE stored
    ELSE c

\* saveSettings at teardown, then __init__ with loadSettings: the attributes
\* named in settingsList keep their values, the others are set by __init__
loadSettings(c) ==
    [distColorRgb |-> c.distColorRgb,
     selectedSchemaIndex |-> c.selectedSchemaIndex,
     distColor |-> QColor(<<220, 220, 220, 255>>),
     colorSettings |-> None,
     discPalette |-> getDiscretePalette(None, c.selectedSchemaIndex),
     showDistributions |-> c.showDistributions,
     rendered |-> {}]

Channels == {0, 128, 255}

\* What the user can leave in the colour dialog.
Dialogs ==
    [schemas : {<<>>, <<"user">>}, selectedSchemaIndex : 0..1,
     color : {QColor(<<r, g, b>>) : r \in Channels, g \in Channels,
                                    b \in Channels}]

SetColorsAccepted(dlg) ==
    /\ ColorReturns(setColors(ColorSelf, Self, dlg, TRUE))
    /\ UNCHANGED <<wvars, avars, pvars>>

SetColorsRejected(dlg) ==
    /\ ColorReturns(setColors(ColorSelf, Self, dlg, FALSE))
    /\ UNCHANGED <<wvars, avars, pvars>>

Reopen ==
    /\ ColorReturns(loadSettings(ColorSelf))
    /\ UNCHANGED <<wvars, avars, pvars>>

ColorNext ==
    \/ \E dlg \in Dialogs : SetColorsAccepted(dlg)
    \/ \E dlg \in Dialogs : SetColorsRejected(dlg)
    \/ Reopen

SpecColors == Init /\ [][ColorNext]_vars

\* The check box 'Visualize continuous values': the user's click sets
\* showDistributions and runs the callback cbShowDistributions.
CbShowDistributionsClicked ==
    /\ ColorReturns(cbShowDistributions(
           [ColorSelf EXCEPT !.showDistributions = ~@], Self))
    /\ UNCHANGED <<wvars, avars, pvars>>

\* The colours the user picks in the dialog while datasets are connected.
RedrawDialogs ==
    [schemas : {<<"user">>}, selectedSchemaIndex : {0},
     color : {QColor(<<0, 128, 255>>), QColor(<<255, 0, 0>>)}]

\* The colour box and the attribute labels of a widget with tabs.
RedrawNext ==
    \/ \E d \in {TPair, None}, id \in Ids : Dataset(d, id)
    \/ \E index \in 0..(Cardinality(Ids) - 1) : TabClicked(index)
    \/ \E dlg \in RedrawDialogs : SetColorsAccepted(dlg)
    \/ \E dlg \in RedrawDialogs : SetColorsRejected(dlg)
    \/ CbShowDistributionsClicked
    \/ CbShowAttLabelsClicked

SpecRedraw == Init /\ [][RedrawNext]_vars

(***************************************************************************)
(* Orange.statistics.distributions: the names bound by the module's        *)
(* imports, and a contingency matrix made through one of them.  The        *)
(* classes of Orange.core behave as the module's documentation says.       *)
(***************************************************************************)
\* from Orange.core import ContingencyAttrAttr as ... (four times)
distributions ==
    [ContingencyVarVar |-> "ContingencyAttrAttr",
     ContingencyClass |-> "ContingencyAttrAttr",
     ContingencyVarClass |-> "ContingencyAttrAttr",
     ContingencyClassVar |-> "ContingencyAttrAttr"]

\* The constructors Cls(feature, class_attribute) of Orange.core: only
\* ContingencyClassAttr takes the inner variable first.
Contingency(cls, first, second) ==
    [class |-> cls,
     outerVariable |-> IF cls = "ContingencyClassAttr" THEN second ELSE first,
     innerVariable |-> IF cls = "ContingencyClassAttr" THEN first ELSE second,
     cells |-> [outer_value \in 0..1 |-> [inner_value \in 0..1 |-> 0]]]

\* add(outer_value, inner_value): weight 1 added to the cell
add(cont, outer_value, inner_value) ==
    [cont EXCEPT !.cells[outer_value][inner_value] = @ + 1]

ContInit ==
    /\ call \in [fn : DOMAIN distributions, feature : {"e"},
                 class_attribute : {"y"}]
    /\ result = None
    /\ WInit
    /\ AIdle
    /\ CIdle

\* cont = Orange.statistics.distributions.<fn>(feature, class_attribute)
ContConstruct ==
    /\ call # None /\ call.fn \in DOMAIN distributions
    /\ result = None
    /\ result' = Some(Contingency(distributions[call.fn], call.feature,
                                  call.class_attribute))
    /\ UNCHANGED <<call, wvars, avars, cvars>>

\* cont.add(outer_value, inner_value)
ContAdd(outer_value, inner_value) ==
    /\ call # None /\ call.fn \in DOMAIN distributions
    /\ result # None
    /\ result.some.cells[0][0] + result.some.cells[0][1]
           + result.some.cells[1][0] + result.some.cells[1][1] < MaxAdds
    /\ result' = Some(add(result.some, outer_value, inner_value))
    /\ UNCHANGED <<call, wvars, avars, cvars>>

ContNext ==
    \/ ContConstruct
    \/ \E outer_value \in 0..1, inner_value \in 0..1 :
          ContAdd(outer_value, inner_value)

SpecContingency == ContInit /\ [][ContNext]_vars

(***************************************************************************)
(* header_text and header_tooltip called on a feature and a key list.      *)
(***************************************************************************)
HeaderChars == {"a", "\n", "<"}

HeaderNames == Seqs(HeaderChars, MaxNameLen) \ {<<>>}

HeaderKeys == {<<"k">>, <<"<">>}

\* The annotations of a feature: some of the keys, each with a value.
HeaderAnnotations ==
    UNION {[K -> Seqs(HeaderChars, 1)] : K \in SUBSET HeaderKeys}

HeaderFeatures ==
    {Feature(name, TRUE, attributes) :
        name \in HeaderNames, attributes \in HeaderAnnotations}

HeaderCalls ==
    [fn : {"header_text", "header_tooltip"}, feature : HeaderFeatures,
     labels : {None} \cup {Some(keys) : keys \in Seqs(HeaderKeys, MaxKeys)}]

\* dict.keys(): the keys in some order
keys(d) ==
    {order \in Seqs(DOMAIN d, Cardinality(DOMAIN d)) :
        Len(order) = Cardinality(DOMAIN d) /\ Range(order) = DOMAIN d}

HeaderInit ==
    /\ call \in HeaderCalls
    /\ result = None
    /\ WInit
    /\ AIdle
    /\ CIdle

HeaderTextReturns ==
    /\ call # None /\ call.fn = "header_text"
    /\ result = None
    /\ result' = Some(header_text(call.feature, call.labels))
    /\ UNCHANGED <<call, wvars, avars, cvars>>

HeaderTooltipReturns ==
    /\ call # None /\ call.fn = "header_tooltip"
    /\ result = None
    /\ \E labels \in (IF call.labels = None
                      THEN keys(call.feature.attributes)
                      ELSE {call.labels.some}) :
          result' = Some(header_tooltip(call.feature, labels))
    /\ UNCHANGED <<call, wvars, avars, cvars>>

HeaderNext == HeaderTextReturns \/ HeaderTooltipReturns

SpecHeader == HeaderInit /\ [][HeaderNext]_vars


(***************************************************************************)
(* Properties of the widget's bookkeeping (checked under Spec).            *)
(***************************************************************************)
\* C1: after every handler the connection ids in data, in showMetas and in
\* id2table are the same set, and table2id is exactly the inverse of
\* id2table.
C1_MappingsInLockStep ==
    /\ DOMAIN data = DOMAIN showMetas
    /\ DOMAIN showMetas = DOMAIN id2table
    /\ DOMAIN table2id = {id2table[id] : id \in DOMAIN id2table}
    /\ \A id \in DOMAIN id2table : table2id[id2table[id]] = id
    /\ \A table \in DOMAIN table2id : id2table[table2id[table]] = table

\* Two connections are registered, one of them after a replacement that took
\* place while the other was registered (three views have been made).
C1_Witness ==
    /\ DOMAIN data = Ids
    /\ View(3) \in DOMAIN table2id
    /\ data[ConnId("a")] # data[ConnId("b")]

\* The widget after dataset(None, id), given the widget w it was called on.
C2_Removed(id, w, after) ==
    /\ id \in DOMAIN w.data
    /\ id \notin DOMAIN after.data
    /\ id \notin DOMAIN after.showMetas
    /\ id \notin DOMAIN after.id2table
    /\ w.id2table[id] \notin DOMAIN after.table2id
    /\ w.id2table[id] \notin Range(after.tabs)
    /\ Len(after.tabs) = Len(w.tabs) - 1

C2_Remove(id, w) == C2_Removed(id, w, dataset(w, None, id))

\* C2: from any state, dataset(table, X) followed by dataset(None, X) leaves
\* X in none of data, showMetas and id2table, leaves the view X had after
\* the first call in neither table2id nor the tab strip, and leaves the
\* strip one tab shorter than it was after the first call.
C2_RemovalClearsConnection ==
    \A id \in Ids : \A d \in InputTables : C2_Remove(id, dataset(Self, d, id))

\* Nothing is registered and the strip is empty although a tab has been
\* shown before (its tabClicked left the pending-change flag set).
C2_Witness ==
    /\ DOMAIN data = {}
    /\ tabs = <<>>
    /\ DOMAIN table2id = {}
    /\ selectionChangedFlag

\* The widget after dataset(d, id), given the widget w it was called on,
\* where id held a dataset.
C3_Replaced(id, d, w, after) ==
    /\ id \in DOMAIN w.data
    /\ after.data[id] = d
    /\ id \in DOMAIN after.id2table
    /\ after.id2table[id] # w.id2table[id]
    /\ after.views[after.id2table[id]].model # None
    /\ after.views[after.id2table[id]].model.examples = d
    /\ Cardinality({i \in 1..Len(after.tabs) :
                       Get(after.table2id, after.tabs[i]) = id}) = 1
    /\ after.id2table[id] \in Range(after.tabs)
    /\ w.id2table[id] \notin Range(after.tabs)
    /\ w.id2table[id] \notin DOMAIN after.table2id
    /\ w.id2table[id] \notin DOMAIN after.views
    /\ \A other \in DOMAIN after.id2table :
          after.id2table[other] # w.id2table[id]
    /\ Len(after.tabs) = Len(w.tabs)

C3_Replace(id, d, w) == C3_Replaced(id, d, w, dataset(w, d, id))

\* C3: from any state, dataset(table1, X) followed by dataset(table2, X)
\* leaves exactly one tab associated with X, whose view is new and whose
\* adapter holds table2; the view made for table1 is in neither the strip
\* nor the mappings.
C3_ReplacementSwapsView ==
    \A id \in Ids : \A d1, d2 \in InputTables :
        C3_Replace(id, d2, dataset(Self, d1, id))

\* Connection "a" got the first view, "b" the second, and "a" now shows the
\* two-row dataset in a third view, placed after b's tab.
C3_Witness ==
    /\ DOMAIN data = Ids
    /\ id2table[ConnId("a")] = View(3)
    /\ id2table[ConnId("b")] = View(2)
    /\ tabs = <<View(2), View(3)>>
    /\ data[ConnId("a")] = TPair

(***************************************************************************)
(* Properties of selection and commit (C6 under Spec, the others under     *)
(* SpecOne).                                                               *)
(***************************************************************************)
\* The current view shows a dataset.
Showing == currentWidget(Self) # None /\ views[currentWidget(Self)].model # None

CurrentModel == views[currentWidget(Self)].model

\* The dataset rows shown at the selected view rows.
SelectedIndices(w) ==
    {At(w.views[currentWidget(w)].model.sorted_map, r) :
        r \in w.views[currentWidget(w)].selected}

\* The rows of a dataset at the given indices, in dataset order.
RowsAt(rows, indices) ==
    [k \in 1..Cardinality(indices) |-> At(rows, SortedSeq(indices)[k])]

\* What commit has to send for the rows of the dataset at the given indices.
Output(tbl, indices) ==
    IF indices = {} THEN None
    ELSE [tbl EXCEPT !.rows = RowsAt(tbl.rows, indices)]

C4_Partition(tbl, S, after) ==
    /\ after.nsent = 2
    /\ after.selectedData = Output(tbl, S)
    /\ after.otherData = Output(tbl, (0..(Len(tbl.rows) - 1)) \ S)
    /\ S # {} => Len(after.selectedData.rows) = Cardinality(S)
    /\ Cardinality(S) < Len(tbl.rows) =>
          Len(after.otherData.rows) = Len(tbl.rows) - Cardinality(S)
    /\ S = {} => after.selectedData = None
    /\ Cardinality(S) = Len(tbl.rows) => after.otherData = None

\* C4: with a dataset of N rows in the current tab and the set S of selected
\* dataset rows, commit sends the |S| rows of S as Selected Data and the
\* other N - |S| rows as Other Data, each in dataset order, and sends None
\* in place of a dataset without rows.
C4_CommitPartitionsRows ==
    Showing => C4_Partition(CurrentModel.examples, SelectedIndices(Self),
                            commit(Self))

\* The button has been clicked with two of the three rows selected.
C4_Witness ==
    /\ Showing
    /\ nsent = 2
    /\ selectedData # None /\ otherData # None
    /\ Len(selectedData.rows) = 2 /\ Len(otherData.rows) = 1
    /\ Cardinality(views[currentWidget(Self)].selected) = 2

\* C5: with auto-commit off a selection change sends nothing, leaves both
\* outputs as they were and sets the pending-change flag, and as long as
\* auto-commit stays off only a click on the send button sends; with
\* auto-commit on a selection change sends both outputs for the new selection.
C5_AutoCommitGating ==
    [][/\ \A rows \in SUBSET (0..(MaxRows - 1)) :
              SelectionChanged(rows) =>
                  IF autoCommit
                  THEN /\ nsent' = 2
                       /\ selectedData' =
                              Output(CurrentModel.examples,
                                     {At(CurrentModel.sorted_map, r) : r \in rows})
                       /\ otherData' =
                              Output(CurrentModel.examples,
                                     (0..(rowCount(CurrentModel) - 1)) \
                                     {At(CurrentModel.sorted_map, r) : r \in rows})
                  ELSE /\ nsent' = 0
                       /\ selectedData' = selectedData
                       /\ otherData' = otherData
                       /\ selectionChangedFlag'
       /\ (/\ ~autoCommit /\ ~autoCommit'
           /\ (nsent' > 0 \/ selectedData' # selectedData
                          \/ otherData' # otherData))
              => SendButtonClicked]_vars

\* Auto-commit is off and a row is selected that has not been sent.
C5_Witness ==
    /\ Showing
    /\ ~autoCommit
    /\ selectionChangedFlag
    /\ nsent = 0
    /\ views[currentWidget(Self)].selected = {1}
    /\ selectedData = None

\* C6: after every handler, the send button is enabled whenever the current
\* tab has a non-empty selection and auto-commit is off.
C6_ButtonEnabledOnSelection ==
    (/\ Showing
     /\ views[currentWidget(Self)].selected # {}
     /\ ~autoCommit) => sendEnabled

\* Two tabs; the current one has a selection, the other has none, and
\* auto-commit is off.
C6_Witness ==
    /\ Len(tabs) = 2
    /\ Showing
    /\ views[currentWidget(Self)].selected # {}
    /\ \E table \in Range(tabs) : views[table].selected = {}
    /\ ~autoCommit
    /\ sendEnabled

C7_Selection(tbl, S, selection, after) ==
    /\ selection # None
    /\ \A k, l \in 1..Len(selection.some) :
          k < l => selection.some[k] < selection.some[l]
    /\ Range(selection.some) = S
    /\ after.selectedData = Output(tbl, Range(selection.some))

\* C7: also after a sort in either direction, the current selection is the
\* increasing duplicate-free list of the dataset rows sorted_map[r] of the
\* selected view rows r, and commit sends exactly those dataset rows as
\* Selected Data.
C7_SelectionThroughSortedMap ==
    Showing => C7_Selection(CurrentModel.examples, SelectedIndices(Self),
                            getCurrentSelection(Self), commit(Self))

\* The three-row dataset sorted descending by its first column (the row with
\* the missing value first), the first view row selected and sent.
C7_Witness ==
    /\ Showing
    /\ CurrentModel.sorted_map = <<1, 0, 2>>
    /\ views[currentWidget(Self)].oldSortingOrder = DescendingOrder
    /\ views[currentWidget(Self)].selected = {0}
    /\ nsent = 2
    /\ selectedData # None
    /\ selectedData.rows = <<At(CurrentModel.examples.rows, 1)>>

(***************************************************************************)
(* Properties of the adapter (checked under SpecAdapter).                  *)
(***************************************************************************)
\* The value of the sorted column in the dataset row shown at view row r.
SortedCell(r) ==
    At(adapter.examples.rows, At(adapter.sorted_map, r))
        [At(adapter.all_attrs, lastSort.column).name]

\* The value of the sorted column in dataset row i.
DataCell(i) ==
    At(adapter.examples.rows, i)[At(adapter.all_attrs, lastSort.column).name]

ViewRows == 0..(Len(adapter.sorted_map) - 1)

Sorted == adapter # None /\ lastSort # None

\* C8 as claimed: after a sort in either direction every row with a missing
\* value in the sorted column is positioned after every row with a present one.
C8_MissingLastBothOrders ==
    Sorted =>
        \A r, q \in ViewRows :
            isSpecial(SortedCell(r)) /\ ~isSpecial(SortedCell(q)) => q < r

\* C8 as amended: after an ascending sort every row with a missing value in
\* the sorted column is positioned after every row with a present one, and
\* after a descending sort before every row with a present one.
C8_MissingLastAscFirstDesc ==
    Sorted =>
        \A r, q \in ViewRows :
            isSpecial(SortedCell(r)) /\ ~isSpecial(SortedCell(q)) =>
                IF lastSort.order = AscendingOrder THEN q < r ELSE r < q

C8_Witness ==
    /\ Sorted
    /\ lastSort.order = DescendingOrder
    /\ \E r, q \in ViewRows :
          isSpecial(SortedCell(r)) /\ ~isSpecial(SortedCell(q))
    /\ isSpecial(DataCell(Len(adapter.sorted_map) - 1))

\* C9: an ascending sort orders the rows with present values by
\* non-decreasing value and keeps rows of equal key (all rows with a missing
\* value among them) in dataset order; a descending sort leaves the rows
\* with a missing value adjacent to each other.
C9_StableAscAdjacentDesc ==
    Sorted =>
        /\ lastSort.order = AscendingOrder =>
              \A r, q \in ViewRows : r < q =>
                  /\ ~isSpecial(SortedCell(r)) /\ ~isSpecial(SortedCell(q))
                        => SortedCell(r).v <= SortedCell(q).v
                  /\ SortedCell(r) = SortedCell(q)
                        => At(adapter.sorted_map, r) < At(adapter.sorted_map, q)
        /\ lastSort.order = DescendingOrder =>
              \A r, q, t \in ViewRows :
                  r < q /\ q < t /\ isSpecial(SortedCell(r)) /\ isSpecial(SortedCell(t))
                      => isSpecial(SortedCell(q))

C9_Witness ==
    /\ Sorted
    /\ lastSort.order = AscendingOrder
    /\ Len(adapter.sorted_map) = 3
    /\ isSpecial(DataCell(0)) /\ ~isSpecial(DataCell(1)) /\ isSpecial(DataCell(2))
    /\ adapter.sorted_map = <<1, 0, 2>>

\* C10: the display columns are ordinary + primary target + auxiliary
\* targets + metas, tagged Attribute / ClassVar / ClassVars / Meta in that
\* order, and the column list, role list, continuous mask, meta mask,
\* background colors and header labels all have length a + (1 if target) +
\* c + m.
C10_ColumnsAndRoles ==
    adapter # None =>
        LET d == adapter.examples.domain
            a == Len(d.attributes)
            y == IF d.class_var # None THEN 1 ELSE 0
            c == Len(d.class_vars)
            m == Len(d.metas)
            n == a + y + c + m
        IN  /\ Len(adapter.all_attrs) = n
            /\ Len(adapter.table_roles) = n
            /\ Len(adapter.continuous_mask) = n
            /\ Len(adapter.meta_mask) = n
            /\ Len(adapter.background_colors) = n
            /\ Len(adapter.header_labels) = n
            /\ \A i \in 1..n :
                  /\ i <= a =>
                        /\ adapter.all_attrs[i] = d.attributes[i]
                        /\ adapter.table_roles[i] = Attribute
                  /\ y = 1 /\ i = a + 1 =>
                        /\ adapter.all_attrs[i] = d.class_var
                        /\ adapter.table_roles[i] = ClassVar
                  /\ a + y < i /\ i <= a + y + c =>
                        /\ adapter.all_attrs[i] = d.class_vars[i - a - y]
                        /\ adapter.table_roles[i] = ClassVars
                  /\ a + y + c < i =>
                        /\ adapter.all_attrs[i] = d.metas[i - a - y - c]
                        /\ adapter.table_roles[i] = Meta

C10_Witness ==
    /\ adapter # None
    /\ Len(adapter.examples.domain.attributes) = 2
    /\ adapter.examples.domain.class_var # None
    /\ Len(adapter.examples.domain.class_vars) = 1
    /\ Len(adapter.examples.domain.metas) = 2
    /\ adapter.table_roles = <<Attribute, Attribute, ClassVar, ClassVars, Meta, Meta>>

(***************************************************************************)
(* Properties of the adapter's cell queries (checked under SpecData).      *)
(***************************************************************************)
\* The value of the queried cell: view row call.row, column call.col.
QueriedCell ==
    At(call.examples.rows, At(CalledModel.sorted_map, call.row))
        [At(CalledModel.all_attrs, call.col).name]

\* The bar fraction expected for a value and a statistics entry.
C11_Fraction(v, st) ==
    [num |-> v - st.min, den |-> IF st.min = st.max THEN 1 ELSE st.max - st.min]

\* C11: a bar-role query on a continuous, non-missing cell whose column is
\* below the length of the statistics container returns
\* (value - min) / (max - min), with the denominator 1 when min = max (so a
\* constant column gives 0 and nothing divides by zero); on a column that is
\* not continuous, a missing value, or a column at or beyond the container's
\* length it returns no value.
C11_BarFraction ==
    (result # None /\ call.fn = "data" /\ call.role = "BarRole") =>
        IF /\ At(CalledModel.all_attrs, call.col).continuous
           /\ ~isSpecial(QueriedCell)
           /\ call.col < Len(call.dist)
        THEN /\ result.some = QVariant(C11_Fraction(QueriedCell.v,
                                                    At(call.dist, call.col)))
             /\ result.some.variant.den # 0
             /\ (At(call.dist, call.col).min = At(call.dist, call.col).max
                 /\ QueriedCell.v = At(call.dist, call.col).min)
                    => result.some.variant.num = 0
        ELSE result.some = None

\* A bar query on the value 1 of a column whose minimum and maximum are 1.
C11_Witness ==
    /\ result # None /\ call.fn = "data" /\ call.role = "BarRole"
    /\ call.col = 0
    /\ call.dist = <<[min |-> 1, max |-> 1]>>
    /\ ~isSpecial(QueriedCell) /\ QueriedCell.v = 1
    /\ result.some = QVariant([num |-> 0, den |-> 1])

(***************************************************************************)
(* Properties of the header texts (checked under SpecHeader).              *)
(***************************************************************************)
\* The number of line breaks in a text.
LineBreaks(str) == Cardinality({i \in 1..Len(str) : str[i] = "\n"})

\* The feature's annotation value for each key of a list, empty when it
\* lacks the key.
C12_Values(feature, labels) ==
    [i \in 1..Len(labels) |->
        IF labels[i] \in DOMAIN feature.attributes
        THEN feature.attributes[labels[i]] ELSE <<>>]

\* A text followed by one more line for each value.
RECURSIVE C12_Lines(_, _)
C12_Lines(text, values) ==
    IF Len(values) = 0 THEN text
    ELSE C12_Lines(text \o <<"\n">> \o Head(values), Tail(values))

\* C12: header_text returns exactly the feature name when no key list is
\* given, and otherwise the name followed by one line per key, in key order,
\* holding the feature's annotation value for that key or nothing when the
\* feature lacks it: 1 + len(keys) lines (as many line breaks as keys are
\* added to those the name and the values hold themselves).
C12_HeaderText ==
    (result # None /\ call.fn = "header_text") =>
        IF call.labels = None
        THEN result.some = call.feature.name
        ELSE /\ result.some =
                    C12_Lines(call.feature.name,
                              C12_Values(call.feature, call.labels.some))
             /\ LineBreaks(result.some) =
                    Len(call.labels.some) +
                    LineBreaks(C12_Lines(call.feature.name, <<>>)) +
                    LineBreaks(join(<<>>, C12_Values(call.feature,
                                                     call.labels.some)))

\* The keys k and "<" asked of a feature "a" that has only k = "a": three
\* lines, the last one empty.
C12_Witness ==
    /\ result # None /\ call.fn = "header_text"
    /\ call.feature.name = <<"a">>
    /\ DOMAIN call.feature.attributes = {<<"k">>}
    /\ call.labels = Some(<< <<"k">>, <<"<">> >>)
    /\ result.some = <<"a", "\n", "a", "\n">>

\* Whether a text occurs somewhere inside another.
Occurs(sub, str) ==
    \E i \in 0..(Len(str) - Len(sub)) :
        \A j \in 1..Len(sub) : str[i + j] = sub[j]

\* The number of places of a text where another occurs.
Occurrences(sub, str) ==
    Cardinality({i \in 0..(Len(str) - Len(sub)) :
                    \A j \in 1..Len(sub) : str[i + j] = sub[j]})

\* The 'key = value' line of a key the feature has.
C13_Line(feature, key) ==
    escape(key) \o <<" ", "=", " ">> \o escape(feature.attributes[key])

\* A tooltip followed by one line for each key of the list that the
\* feature has, and by nothing for a key it lacks.
RECURSIVE C13_Tip(_, _, _)
C13_Tip(tip, feature, labels) ==
    IF Len(labels) = 0 THEN tip
    ELSE IF Head(labels) \in DOMAIN feature.attributes
         THEN C13_Tip(tip \o <<"<", "b", "r", "/", ">">>
                          \o C13_Line(feature, Head(labels)),
                      feature, Tail(labels))
         ELSE C13_Tip(tip, feature, Tail(labels))

C13_Name(feature) ==
    <<"<", "b", ">">> \o escape(feature.name) \o <<"<", "/", "b", ">">>

\* The tooltip asked over a key list: the name in bold, then one line per
\* requested key that is present; an absent key adds no line and is mentioned
\* nowhere (its text occurs in the tooltip only where the name or a present
\* key's line holds it).
C13_Over(tip, feature, labels) ==
    /\ tip = C13_Tip(C13_Name(feature), feature, labels)
    /\ Occurrences(<<"<", "b", "r", "/", ">">>, tip) =
           Len(SelectSeq(labels, LAMBDA key : key \in DOMAIN feature.attributes))
    /\ \A i \in 1..Len(labels) :
          labels[i] \in DOMAIN feature.attributes =>
              Occurs(<<"<", "b", "r", "/", ">">> \o C13_Line(feature, labels[i]), tip)
    /\ \A i \in 1..Len(labels) :
          (/\ labels[i] \notin DOMAIN feature.attributes
           /\ Occurs(escape(labels[i]), tip)) =>
              \/ Occurs(escape(labels[i]), escape(feature.name))
              \/ \E key \in DOMAIN feature.attributes :
                    Occurs(escape(labels[i]), C13_Line(feature, key))

\* C13: header_tooltip(feature, keys) contains one 'key = value' line for
\* every requested key that is present in the feature's annotations and no
\* line or mention for a requested key that is absent; with no key list given
\* it covers exactly the keys present on the feature, each once, in the order
\* the dictionary lists them.
C13_HeaderTooltip ==
    (result # None /\ call.fn = "header_tooltip") =>
        IF call.labels = None
        THEN \E order \in keys(call.feature.attributes) :
                C13_Over(result.some, call.feature, order)
        ELSE C13_Over(result.some, call.feature, call.labels.some)

\* The keys k and "<" asked of a feature "a" that has only k = "a": the
\* tooltip holds the line of k and no line of "<".
C13_Witness ==
    /\ result # None /\ call.fn = "header_tooltip"
    /\ call.feature.name = <<"a">>
    /\ call.feature.attributes = (<<"k">> :> <<"a">>)
    /\ call.labels = Some(<< <<"k">>, <<"<">> >>)
    /\ result.some = <<"<", "b", ">", "a", "<", "/", "b", ">",
                       "<", "b", "r", "/", ">", "k", " ", "=", " ", "a">>

(***************************************************************************)
(* Properties of the info box (checked under SpecInfo).                    *)
(***************************************************************************)
\* setInfo has returned the texts of a dataset.
InfoShown ==
    /\ result # None /\ call.fn = "setInfo" /\ call.data # None
    /\ result.some # ZeroDivisionError

\* The count phrase of the pluralization rule: the word for zero and the
\* plural for a count of 0, "1" and the singular for 1, the numeral and the
\* plural from 2 on.
C14_Count(n, zero, noun) ==
    IF n = 0 THEN zero \o " " \o noun \o "s"
    ELSE IF n = 1 THEN "1 " \o noun
    ELSE ToString(n) \o " " \o noun \o "s"

\* C14 as stated: the example-count line follows the pluralization rule for
\* every row count n, with 'No examples,' for n = 0, '1 example,' for n = 1
\* and '<n> examples,' for n >= 2.
C14_AsStated ==
    InfoShown =>
        result.some.infoEx = C14_Count(Len(call.data.rows), "No", "example") \o ","

\* C14 (amended): the example-count line is 'no examples,' (lower case) for
\* n = 0, '1 example,' for n = 1 and '<n> examples,' for n >= 2; the same
\* rule governs the attribute count (capitalised: 'No attributes,'), the
\* meta-attribute count ('no meta attributes.') and the class-value count
\* of a discrete class ('... with no values.').
C14_Pluralization ==
    InfoShown =>
        /\ result.some.infoEx =
               C14_Count(Len(call.data.rows), "no", "example") \o ","
        /\ result.some.infoAttr =
               C14_Count(Len(call.data.domain.attributes), "No", "attribute") \o ","
        /\ result.some.infoMeta =
               C14_Count(Len(call.data.domain.metas), "no", "meta attribute") \o "."
        /\ (/\ call.data.domain.class_var # None
            /\ call.data.domain.class_var.varType = "Discrete") =>
               result.some.infoClass =
                   "Discrete class with "
                   \o C14_Count(Len(call.data.domain.class_var.values), "no", "value")
                   \o "."

\* A dataset of no examples, one attribute, two metas and a discrete class
\* of no values.
C14_Witness ==
    /\ InfoShown
    /\ Len(call.data.rows) = 0
    /\ result.some.infoEx = "no examples,"
    /\ result.some.infoAttr = "1 attribute,"
    /\ result.some.infoMeta = "2 meta attributes."
    /\ result.some.infoClass = "Discrete class with no values."

\* The number of examples of a dataset that hold a missing value.
C15_MissingCount(tbl) ==
    Cardinality({i \in 1..Len(tbl.rows) :
                    \E name \in DOMAIN tbl.rows[i] : isSpecial(tbl.rows[i][name])})

\* The missing-value line showing a count and a percentage of t tenths.
C15_Line(count, t) ==
    ToString(count) \o " (" \o ToString(t \div 10) \o "." \o ToString(t % 10)
    \o "%) with missing values."

\* C15: setInfo on a zero-row dataset reports a missing-value percentage of
\* 0 and raises no division by zero; for a non-empty dataset the percentage
\* shown is 100 * missingCount / totalCount (to the nearest tenth).
C15_MissingPercentage ==
    (result # None /\ call.fn = "setInfo" /\ call.data # None) =>
        /\ result.some # ZeroDivisionError
        /\ IF Len(call.data.rows) = 0
           THEN result.some.infoMiss = C15_Line(0, 0)
           ELSE \E t \in 0..1000 :
                   /\ 2 * t * Len(call.data.rows)
                          <= 2000 * C15_MissingCount(call.data) + Len(call.data.rows)
                   /\ 2 * t * Len(call.data.rows)
                          >= 2000 * C15_MissingCount(call.data) - Len(call.data.rows)
                   /\ result.some.infoMiss =
                          C15_Line(C15_MissingCount(call.data), t)

\* A dataset of no examples: the line shows the count 0 and 0.0 percent.
C15_Witness ==
    /\ result # None /\ call.fn = "setInfo" /\ call.data # None
    /\ Len(call.data.rows) = 0
    /\ result.some # ZeroDivisionError
    /\ result.some.infoMiss = "0 (0.0%) with missing values."

\* A dataset of three examples, one of them with a missing value.
C15_WitnessThird ==
    /\ result # None /\ call.fn = "setInfo" /\ call.data # None
    /\ Len(call.data.rows) = 3
    /\ result.some # ZeroDivisionError
    /\ result.some.infoMiss = "1 (33.3%) with missing values."

(***************************************************************************)
(* Properties of the clipboard export (checked under SpecCopy).            *)
(***************************************************************************)
\* Reading delimited text back: the records and their fields.  mode is
\* "start" at the start of a field, "plain" inside an unquoted field,
\* "quoted" inside quotes and "quote" after a quote met inside quotes.
RECURSIVE C16_Scan(_, _, _, _, _, _)
C16_Scan(str, delimiter, mode, field, record, records) ==
    IF Len(str) = 0
    THEN IF mode = "start" /\ Len(record) = 0 THEN records
         ELSE Append(records, Append(record, field))
    ELSE IF mode = "quoted"
    THEN IF Head(str) = "\""
         THEN C16_Scan(Tail(str), delimiter, "quote", field, record, records)
         ELSE C16_Scan(Tail(str), delimiter, "quoted",
                       Append(field, Head(str)), record, records)
    ELSE IF mode = "quote" /\ Head(str) = "\""
    THEN C16_Scan(Tail(str), delimiter, "quoted", Append(field, "\""),
                  record, records)
    ELSE IF mode = "start" /\ Head(str) = "\""
    THEN C16_Scan(Tail(str), delimiter, "quoted", field, record, records)
    ELSE IF Head(str) = delimiter
    THEN C16_Scan(Tail(str), delimiter, "start", <<>>,
                  Append(record, field), records)
    ELSE IF Head(str) = "\r"
    THEN C16_Scan(Tail(str), delimiter, mode, field, record, records)
    ELSE IF Head(str) = "\n"
    THEN C16_Scan(Tail(str), delimiter, "start", <<>>, <<>>,
                  Append(records,
                         IF mode = "start" /\ Len(record) = 0 THEN <<>>
                         ELSE Append(record, field)))
    ELSE C16_Scan(Tail(str), delimiter, "plain", Append(field, Head(str)),
                  record, records)

C16_Records(str, delimiter) == C16_Scan(str, delimiter, "start", <<>>, <<>>, <<>>)

\* The display text of a cell of the view: the text of the value that the
\* example shown in the view row has for the column's feature.
C16_Cell(row, col) ==
    Str(call.examples.rows[CopiedModel.sorted_map[row + 1] + 1]
            [AllAttrs(call.examples.domain)[col].name])

\* One record per selected view row, one field per display column.
C16_Cells ==
    [k \in 1..Len(call.rows) |->
        [i \in 1..Len(AllAttrs(call.examples.domain)) |->
            C16_Cell(call.rows[k], i)]]

\* C16: for any non-empty row selection, the clipboard's tab-separated and
\* plain-text representations are byte-identical, and the comma-separated
\* representation has the same number of records with the same cell values
\* in the same row and column order, one record per selected view row and
\* one field per display column.
C16_ClipboardConsistent ==
    (/\ result # None /\ call.fn = "copy_selection_to_clipboard"
     /\ Len(call.rows) > 0) =>
        /\ result.some["text/tab-separated-values"] = result.some["text/plain"]
        /\ C16_Records(result.some["text/tab-separated-values"], "\t") = C16_Cells
        /\ C16_Records(result.some["text/csv"], ",") = C16_Cells
        /\ Len(C16_Records(result.some["text/csv"], ",")) = Len(call.rows)
        /\ \A k \in 1..Len(call.rows) :
              Len(C16_Records(result.some["text/csv"], ",")[k]) =
                  columnCount(CopiedModel)

\* Both rows of a dataset sorted in descending order are copied, the second
\* view row first; the cells hold the delimiters: the two exports quote
\* different fields and hold the same records.
C16_Witness ==
    /\ result # None /\ call.fn = "copy_selection_to_clipboard"
    /\ call.examples.rows = <<[x |-> Val(0), t |-> Text(<<",">>)],
                              [x |-> Val(1), t |-> Text(<<"\t">>)]>>
    /\ call.order = DescendingOrder
    /\ call.rows = <<1, 0>>
    /\ result.some["text/csv"] =
           <<"0", ",", "\"", ",", "\"", "\r", "\n", "1", ",", "\t", "\r", "\n">>
    /\ result.some["text/plain"] =
           <<"0", "\t", ",", "\r", "\n", "1", "\t", "\"", "\t", "\"", "\r", "\n">>

(***************************************************************************)
(* Properties of the colour settings (checked under SpecColors).           *)
(***************************************************************************)
\* C17 as stated: in every reachable state the persisted distColorRgb
\* setting is a 4-tuple of integers each in 0..255, including after the
\* colour dialog has been accepted.
C17_FourChannels ==
    /\ Len(distColorRgb) = 4
    /\ \A i \in 1..Len(distColorRgb) : distColorRgb[i] \in 0..255

(***************************************************************************)
(* Properties of the statistics names (checked under SpecContingency).     *)
(***************************************************************************)
\* C18 as stated: the four contingency names (ContingencyVarVar,
\* ContingencyClass, ContingencyVarClass, ContingencyClassVar) are distinct
\* variants distinguished by which of the outer and inner feature is bound
\* to the class: a matrix made by ContingencyVarClass(feature, class) has the
\* class as inner variable, one made by ContingencyClassVar(feature, class)
\* has the class as outer variable.
C18_DistinctVariants ==
    /\ \A m, n \in DOMAIN distributions :
          m # n => distributions[m] # distributions[n]
    /\ (result # None /\ call.fn = "ContingencyVarClass") =>
          result.some.innerVariable = call.class_attribute
    /\ (result # None /\ call.fn = "ContingencyClassVar") =>
          result.some.outerVariable = call.class_attribute

\* The part of C18 about ContingencyClassVar alone: the class is the outer
\* variable of a matrix made through that name.
C18_ClassIsOuter ==
    (result # None /\ call.fn = "ContingencyClassVar") =>
        result.some.outerVariable = call.class_attribute

(***************************************************************************)
(* Properties of the widget, continued (checked under Spec).               *)
(***************************************************************************)
\* The widget a dataset() call returns: with no connection left, the
\* button is disabled.
C19_After(after) == Cardinality(DOMAIN after.data) = 0 => ~after.sendEnabled

\* C19: after any dataset() call that leaves zero active connections,
\* 'Send selections' is disabled, whatever the auto-commit setting.
C19_NoConnectionDisablesSend ==
    \A id \in Ids : \A d \in InputTables \cup {None} :
        C19_After(dataset(Self, d, id))

\* One connection, auto-commit off and the button enabled: dataset(None, id)
\* on it leaves no connection and the button disabled.
C19_Witness ==
    \E id \in Ids :
        /\ DOMAIN data = {id}
        /\ ~autoCommit
        /\ sendEnabled
        /\ DOMAIN dataset(Self, None, id).data = {}
        /\ ~dataset(Self, None, id).sendEnabled

\* The widget commit returns, given the widget w it was called on.
C20_Committed(w, after) ==
    /\ (\/ currentWidget(w) = None
        \/ w.views[currentWidget(w)].model = None) =>
           /\ after.nsent = 2
           /\ after.selectedData = None
           /\ after.otherData = None
    /\ ~after.selectionChangedFlag

\* C20: when there is no active tab, or the active tab has no bound adapter,
\* commit emits no-value on both 'Selected Data' and 'Other Data'; in every
\* case commit leaves the pending-change flag cleared.
C20_CommitWithoutTab == C20_Committed(Self, commit(Self))

\* No tab is left, the outputs still hold the rows sent while there was one
\* and a change is pending: commit emits no-value twice and clears the flag.
C20_Witness ==
    /\ tabs = <<>>
    /\ selectedData # None
    /\ otherData # None
    /\ selectionChangedFlag
    /\ commit(Self).nsent = 2
    /\ commit(Self).selectedData = None
    /\ commit(Self).otherData = None
    /\ ~commit(Self).selectionChangedFlag

\* The widget btnResetSortClicked returns, given the widget w it was called
\* on, the view table that was current and the dataset d of its connection:
\* the adapter is the one a new dataset d gets (newly built, the attribute
\* labels drawn).
C21_Restored(w, after, table, d) ==
    /\ after.views[table].model =
           set_show_attr_labels(
               [model |-> ExampleTableModel(d, DomainBasicAttrStat(d)),
                emitted |-> <<>>], w.showAttributeLabels).model
    /\ after.views[table].model.examples = d
    /\ after.views[table].model.sorted_map = PyRange(Len(d.rows))
    /\ DOMAIN after.data = DOMAIN w.data
    /\ DOMAIN after.showMetas = DOMAIN w.showMetas
    /\ DOMAIN after.id2table = DOMAIN w.id2table
    /\ DOMAIN after.table2id = DOMAIN w.table2id
    /\ Len(after.tabs) = Len(w.tabs)

\* C21: after 'Restore Order of Examples' on the active tab, following any
\* sequence of sorts, the tab's adapter is a fresh one over the connection's
\* original dataset whose row permutation is the identity, and the key sets
\* of the four per-connection mappings and the number of tabs are unchanged.
C21_RestoreOrder ==
    currentWidget(Self) # None =>
        C21_Restored(Self, btnResetSortClicked(Self), currentWidget(Self),
                     data[table2id[currentWidget(Self)]])

\* The rows of the active tab are shown in another order than the dataset's;
\* Restore Order shows them in the dataset's order.
C21_Witness ==
    /\ currentWidget(Self) # None
    /\ views[currentWidget(Self)].model.sorted_map
           # PyRange(rowCount(views[currentWidget(Self)].model))
    /\ btnResetSortClicked(Self).views[currentWidget(Self)].model.sorted_map
           = PyRange(rowCount(views[currentWidget(Self)].model))

(***************************************************************************)
(* Properties of the meta attribute columns (checked under SpecMeta).      *)
(***************************************************************************)
\* The widget after one toggle of 'Show meta attributes', given the widget w
\* before it, the active connection id and its view table.
C22_Toggled(w, after, id, table) ==
    /\ DOMAIN after.showMetas = DOMAIN w.showMetas
    /\ after.showMetas[id].shown = ~w.showMetas[id].shown
    /\ after.showMetas[id].columns = w.showMetas[id].columns
    /\ \A other \in DOMAIN w.showMetas \ {id} :
          after.showMetas[other] = w.showMetas[other]
    /\ \A c \in Range(after.showMetas[id].columns) :
          c \in after.views[table].hidden <=> ~after.showMetas[id].shown

\* The widget after two toggles in a row.
C22_ToggledTwice(w, after, id, table) ==
    /\ after.showMetas[id].shown = w.showMetas[id].shown
    /\ after.views[table].hidden = w.views[table].hidden

\* C22: each toggle of 'Show meta attributes' flips only the active
\* connection's stored 'shown' flag and leaves every other connection's
\* record unchanged; afterwards every metadata column recorded for the
\* active connection is hidden iff the flag is false, and two consecutive
\* toggles restore the original flag and column visibility.
C22_ShowMetaToggle ==
    currentWidget(Self) # None =>
        /\ C22_Toggled(Self, cbShowMetaToggled(Self),
                       table2id[currentWidget(Self)], currentWidget(Self))
        /\ C22_Toggled(cbShowMetaToggled(Self),
                       cbShowMetaToggled(cbShowMetaToggled(Self)),
                       table2id[currentWidget(Self)], currentWidget(Self))
        /\ C22_ToggledTwice(Self, cbShowMetaToggled(cbShowMetaToggled(Self)),
                            table2id[currentWidget(Self)], currentWidget(Self))

\* Two connections; the active one has a meta column, shown, the other
\* one's flag is off: the toggle hides the column and clears only the
\* active connection's flag.
C22_Witness ==
    /\ currentWidget(Self) # None
    /\ cbShowMetaEnabled
    /\ Cardinality(DOMAIN showMetas) = 2
    /\ showMetas[table2id[currentWidget(Self)]].shown
    /\ Len(showMetas[table2id[currentWidget(Self)]].columns) > 0
    /\ \E other \in DOMAIN showMetas :
          /\ other # table2id[currentWidget(Self)]
          /\ ~showMetas[other].shown
          /\ ~cbShowMetaToggled(Self).showMetas[other].shown
    /\ ~cbShowMetaToggled(Self).showMetas[table2id[currentWidget(Self)]].shown
    /\ cbShowMetaToggled(Self).views[currentWidget(Self)].hidden # {}

\* The check box is enabled only when the active tab's dataset has a meta
\* attribute column.
C23_EnabledOnlyWithMetas(w) ==
    w.cbShowMetaEnabled =>
        /\ currentWidget(w) # None
        /\ Len(w.data[w.table2id[currentWidget(w)]].domain.metas) > 0

\* C23 as stated: in every state reached after a dataset() call or a tab
\* activation, the 'Show meta attributes' checkbox is enabled only when the
\* active tab's dataset has at least one metadata column.
C23_CheckBoxEnabled ==
    /\ \A id \in Ids : \A d \in InputTables \cup {None} :
          C23_EnabledOnlyWithMetas(dataset(Self, d, id))
    /\ \A index \in 0..(Len(tabs) - 1) :
          index # currentIndex =>
              C23_EnabledOnlyWithMetas(setCurrentIndex(Self, index))

\* The part of C23 about a tab activation alone.
C23_AfterActivation ==
    \A index \in 0..(Len(tabs) - 1) :
        (index # currentIndex /\ setCurrentIndex(Self, index).cbShowMetaEnabled) =>
            Len(data[table2id[tabs[index + 1]]].domain.metas) > 0

\* The widget after the tab of view table, of connection id, has been
\* activated, given the widget w before.
C24_Activated(w, after, id, table) ==
    /\ currentWidget(after) = table
    /\ after.showMeta = w.showMetas[id].shown
    /\ after.cbShowMetaEnabled = (Len(w.showMetas[id].columns) > 0)
    /\ after.sendEnabled = (w.views[table].selected # {} /\ ~w.autoCommit)
    /\ after.showMetas = w.showMetas

C25_Registered(w, after, d, id) ==
    /\ id \in DOMAIN after.data
    /\ after.data[id] = d
    /\ id \in DOMAIN after.showMetas
    /\ id \in DOMAIN after.id2table
    /\ after.id2table[id] \in DOMAIN after.table2id
    /\ after.table2id[after.id2table[id]] = id
    /\ after.id2table[id] \in Range(after.tabs)
    /\ id \notin DOMAIN w.data => Len(after.tabs) = Len(w.tabs) + 1
    /\ after.views[after.id2table[id]].model # None
    /\ rowCount(after.views[after.id2table[id]].model) = 0

\* The widget dataset(None, id) returns: id is in none of the mappings and
\* no tab was added.
C25_NotRegistered(w, after, id) ==
    /\ id \notin DOMAIN after.data
    /\ id \notin DOMAIN after.showMetas
    /\ id \notin DOMAIN after.id2table
    /\ \A table \in DOMAIN after.table2id : after.table2id[table] # id
    /\ Len(after.tabs) <= Len(w.tabs)

\* The widget commit returns when the current tab's dataset has no rows.
C25_CommittedEmpty(w, after) ==
    (/\ currentWidget(w) # None
     /\ w.views[currentWidget(w)].model # None
     /\ rowCount(w.views[currentWidget(w)].model) = 0) =>
        /\ after.nsent = 2
        /\ after.selectedData = None
        /\ after.otherData = None

\* C25: dataset(emptyTable, X) with a zero-row dataset registers connection X
\* in all four mappings and adds a tab whose adapter reports row count 0,
\* whereas dataset(None, X) registers nothing; committing on a zero-row
\* dataset emits no-value on both outputs without failing.
C25_EmptyIsNotNone ==
    /\ \A id \in Ids :
        /\ C25_Registered(Self, dataset(Self, TEmpty, id), TEmpty, id)
        /\ C25_NotRegistered(Self, dataset(Self, None, id), id)
    /\ C25_CommittedEmpty(Self, commit(Self))

\* Connection a shows a dataset whose rows were sent on both outputs,
\* connection b is new: dataset(empty, b) adds a second tab for b with an
\* adapter of zero rows, and commit on that tab emits no-value twice.
C25_Witness ==
    /\ DOMAIN data = {ConnId("a")}
    /\ selectedData # None
    /\ otherData # None
    /\ Len(TEmpty.rows) = 0
    /\ Len(dataset(Self, TEmpty, ConnId("b")).tabs) = 2
    /\ DOMAIN dataset(Self, TEmpty, ConnId("b")).data = Ids
    /\ rowCount(dataset(Self, TEmpty, ConnId("b")).views[
           currentWidget(dataset(Self, TEmpty, ConnId("b")))].model) = 0
    /\ commit(dataset(Self, TEmpty, ConnId("b"))).nsent = 2
    /\ commit(dataset(Self, TEmpty, ConnId("b"))).selectedData = None
    /\ commit(dataset(Self, TEmpty, ConnId("b"))).otherData = None
    /\ DOMAIN dataset(Self, None, ConnId("b")).data = {ConnId("a")}

\* The widget dataset(None, id) returns, given the widget w it was called on.
C26_Unchanged(w, after) ==
    /\ after.data = w.data
    /\ after.showMetas = w.showMetas
    /\ after.id2table = w.id2table
    /\ after.table2id = w.table2id
    /\ after.tabs = w.tabs
    /\ after.currentIndex = w.currentIndex
    /\ after.selectedData = w.selectedData
    /\ after.otherData = w.otherData
    /\ after.nsent = 0

\* C26: dataset(None, X) for a connection id X that has no entry leaves all
\* four per-connection mappings, the tab strip, the active tab and both
\* outputs unchanged.
C26_NoneForUnknownId ==
    \A id \in Ids \ DOMAIN data :
        C26_Unchanged(Self, dataset(Self, None, id))

\* Connection a has a tab and rows on both outputs, connection b has no
\* entry: dataset(None, b) leaves the tab, the mappings and the outputs.
C26_Witness ==
    /\ DOMAIN data = {ConnId("a")}
    /\ Len(tabs) = 1
    /\ selectedData # None
    /\ otherData # None
    /\ dataset(Self, None, ConnId("b")).data = data
    /\ dataset(Self, None, ConnId("b")).tabs = tabs
    /\ dataset(Self, None, ConnId("b")).selectedData = selectedData
    /\ dataset(Self, None, ConnId("b")).otherData = otherData

(***************************************************************************)
(* Properties of the colour dialog (checked under SpecColors).             *)
(***************************************************************************)
\* C27: when the color dialog is accepted with a default color (r, g, b),
\* the stored distColorRgb tuple is (r, g, r): the red channel occupies the
\* blue slot and the green slot holds the true green.
C27_RedInBlueSlot ==
    [][\A dlg \in Dialogs :
          SetColorsAccepted(dlg) =>
              distColorRgb' = <<dlg.color.red, dlg.color.green, dlg.color.red>>]_vars

\* The dialog was accepted with a default colour whose blue channel is not
\* its red channel: the tuple holds red, green, red.
C27_Witness ==
    /\ distColor.blue # distColor.red
    /\ distColor.green # distColor.red
    /\ distColorRgb = <<distColor.red, distColor.green, distColor.red>>

(***************************************************************************)
(* Properties of the colour box of a widget with tabs (checked under       *)
(* SpecRedraw).                                                            *)
(***************************************************************************)
\* The colour settings setColors returns for a cancelled dialog, given the
\* settings c it was called with.
C28_Cancelled(c, after) ==
    /\ after.colorSettings = c.colorSettings
    /\ after.selectedSchemaIndex = c.selectedSchemaIndex
    /\ after.discPalette = c.discPalette
    /\ after.distColor = c.distColor
    /\ after.distColorRgb = c.distColorRgb
    /\ after.rendered = {}

\* C28: when the color dialog is cancelled, colorSettings,
\* selectedSchemaIndex, discPalette, distColor and distColorRgb are all
\* unchanged and no tab is re-rendered.
C28_CancelChangesNothing ==
    \A dlg \in Dialogs :
        C28_Cancelled(ColorSelf, setColors(ColorSelf, Self, dlg, FALSE))

\* Two tabs, the bars shown, and colours chosen in an accepted dialog that
\* redrew both views: a cancelled dialog with another colour keeps the
\* colours and redraws no view, where an accepted one would redraw both.
C28_Witness ==
    /\ Len(tabs) = 2
    /\ showDistributions
    /\ colorSettings # None
    /\ rendered = Range(tabs)
    /\ \E dlg \in Dialogs :
          /\ dlg.color # distColor
          /\ setColors(ColorSelf, Self, dlg, FALSE).distColor = distColor
          /\ setColors(ColorSelf, Self, dlg, FALSE).rendered = {}
          /\ setColors(ColorSelf, Self, dlg, TRUE).rendered = Range(tabs)

(***************************************************************************)
(* Properties of the adapter's header texts (checked under SpecLabels).    *)
(***************************************************************************)
\* The header texts of the adapter model agree with the flag val: with the
\* flag set every column shows its feature's name and one line for each
\* annotation key of the dataset, in sorted order; without it, the name.
C29_HeaderAgrees(model, val) ==
    /\ Len(model.header_labels) = Len(model.all_attrs)
    /\ \A i \in 1..Len(model.all_attrs) :
          model.header_labels[i] =
              IF val
              THEN header_text(model.all_attrs[i],
                               Some(sortedKeys(annotationKeys(model.all_attrs))))
              ELSE header_text(model.all_attrs[i], None)

\* What set_show_attr_labels(val) returns, given the adapter it was called on.
C29_Set(self, after, val) ==
    /\ val = self.model.show_attr_labels =>
          /\ after.model = self.model
          /\ after.emitted = <<>>
    /\ val # self.model.show_attr_labels =>
          /\ after.model.show_attr_labels = val
          /\ C29_HeaderAgrees(after.model, val)

\* C29: setting the adapter's show-attribute-labels flag to the value already
\* in effect changes no state and emits no signal; setting it to a different
\* value makes every column's header text equal header_text(feature, all
\* sorted annotation keys) when true and header_text(feature) when false, so
\* in every reachable state header_labels agrees with the flag.
C29_HeaderFollowsFlag ==
    adapter # None =>
        /\ \A val \in BOOLEAN :
              C29_Set(AdapterSelf, set_show_attr_labels(AdapterSelf, val), val)
        /\ C29_HeaderAgrees(adapter, adapter.show_attr_labels)

\* The flag was set on an adapter whose two features have one annotation
\* key each: the headers show both keys in sorted order, with an empty line
\* for the key a feature lacks; setting the flag again emits nothing, and
\* clearing it gives the names back.
C29_Witness ==
    /\ adapter # None
    /\ adapter.show_attr_labels
    /\ Len(emitted) = 4
    /\ adapter.all_attrs[1].attributes = [k \in {<<"k">>} |-> <<"a">>]
    /\ adapter.all_attrs[2].attributes = [k \in {<<"<">>} |-> <<"a">>]
    /\ adapter.header_labels = <<<<"x", "\n", "\n", "a">>, <<"m", "\n", "a", "\n">>>>
    /\ set_show_attr_labels(AdapterSelf, TRUE).emitted = <<>>
    /\ set_show_attr_labels(AdapterSelf, FALSE).model.header_labels =
           <<<<"x">>, <<"m">>>>

(***************************************************************************)
(* Properties of the values stored in the adapter (checked under           *)
(* SpecOverlay).                                                           *)
(***************************************************************************)
\* The cells and the roles of the calls of data and setData.
C30_Cells == (0..1) \X (0..1)

C30_OtherRoles == StoredRoles \ recognizedRoles

\* What data returns after setData(row, col, variant, role) on the adapter
\* model: the value stored for a role the adapter does not answer itself, and
\* for the roles it answers what it returned before, at every cell.
C30_Stored(model, after, row, col, variant, role) ==
    /\ role \notin recognizedRoles =>
          model_data(after, row, col, role) = variant
    /\ \A cell \in C30_Cells : \A known \in recognizedRoles :
          model_data(after, cell[1], cell[2], known) =
              model_data(model, cell[1], cell[2], known)

\* C30: for a role outside the six well-known roles, setData(row, col, role,
\* v) followed by data(row, col, role) returns v and a never-stored (row,
\* col, role) returns no value; for a well-known role (display, background,
\* bar, raw value, class value, variable descriptor), setData never changes
\* what data returns for that role.
C30_OverlayOnlyForOtherRoles ==
    adapter # None =>
        /\ \A cell \in C30_Cells : \A role \in StoredRoles :
              \A variant \in StoredValues :
                 C30_Stored(adapter,
                            setData(AdapterSelf, cell[1], cell[2], variant,
                                    role).model,
                            cell[1], cell[2], variant, role)
        /\ \A cell \in C30_Cells : \A role \in C30_OtherRoles :
              <<cell[1], cell[2], role>> \notin DOMAIN adapter.other_data =>
                  model_data(adapter, cell[1], cell[2], role) = None

\* The adapter is sorted in descending order and holds a value stored for
\* the display role and one for a role of its own at the first cell: data
\* returns the text of the cell's value for the first and the stored value
\* for the second, and no value for that role at the next row.
C30_Witness ==
    /\ adapter # None
    /\ lastSort # None /\ lastSort.order = DescendingOrder
    /\ DOMAIN adapter.other_data =
           {<<0, 0, "DisplayRole">>, <<0, 0, "UserRole">>}
    /\ adapter.other_data[<<0, 0, "DisplayRole">>] = QVariant(0)
    /\ adapter.other_data[<<0, 0, "UserRole">>] = QVariant(0)
    /\ model_data(adapter, 0, 0, "DisplayRole") = QVariant(<<"1">>)
    /\ model_data(adapter, 0, 0, "UserRole") = QVariant(0)
    /\ model_data(adapter, 1, 0, "UserRole") = None
    /\ Len(emitted) = 1

(***************************************************************************)
(* Properties of the copy key (checked under SpecKeys).                    *)
(***************************************************************************)
\* C31: on the copy key gesture, any failure raised while exporting the
\* selection is caught and does not propagate, and the gesture is not
\* forwarded to default grid-view handling; every non-copy key gesture is
\* forwarded to default handling and never touches the clipboard.
C31_CopyKey ==
    (result # None /\ call.fn = "keyPressEvent") =>
        /\ result.some.raised = None
        /\ call.event = "QKeySequence.Copy" => ~result.some.forwarded
        /\ call.event # "QKeySequence.Copy" =>
              /\ result.some.forwarded
              /\ result.some.clipboard = call.clipboard

\* The copy key in a view whose selected row holds a character the writer
\* cannot encode: the export fails, the failure is written to stderr, the
\* clipboard keeps what it held and the key is not forwarded.
C31_Witness ==
    /\ result # None /\ call.fn = "keyPressEvent"
    /\ call.event = "QKeySequence.Copy"
    /\ call.examples # None
    /\ copy_selection_raises(KeySelf.model, call.rows) = UnicodeEncodeError
    /\ call.clipboard # None
    /\ result.some.stderr = <<UnicodeEncodeError>>
    /\ result.some.raised = None
    /\ result.some.clipboard = call.clipboard
    /\ ~result.some.forwarded

(***************************************************************************)
(* Properties of the deferred redraws (checked under SpecTimers).          *)
(***************************************************************************)
\* What the deferred redraw of the view table leaves of the widget w: no
\* exception gets out and the widget is as it was.
C32_Redrawn(w, after) ==
    /\ after.raised = None
    /\ after = w

\* C32: a deferred redraw scheduled by a layout change (sort or label
\* toggle) that fires after its connection's view has been torn down by
\* dataset(None, id) or replaced raises no error and changes no widget state.
C32_LateRedraw ==
    \A table \in timers : \A deleted \in BOOLEAN :
        (table \in DOMAIN views => ~deleted) =>
            C32_Redrawn(Self, p(Self, table, deleted))

\* The connection was torn down while the redraw of its view was pending and
\* a new dataset has arrived since: the redraw of the view that is gone
\* fires, deleted or not, and leaves the widget with its new tab.
C32_Witness ==
    /\ Orphans # {}
    /\ Len(tabs) = 1
    /\ \E table \in Orphans :
          /\ p(Self, table, TRUE) = Self
          /\ p(Self, table, FALSE) = Self
          /\ p(Self, table, TRUE).raised = None

(***************************************************************************)
(* Properties of the adapter's row order (checked under SpecAdapter).      *)
(***************************************************************************)
\* C33: in every reachable state of an adapter (at construction and after
\* any sequence of ascending or descending sorts on any columns), the
\* row-order array sorted_map is a permutation of 0..N-1 where N is the
\* dataset length, and it is the identity at construction.
C33_SortedMapPermutation ==
    adapter # None =>
        /\ Len(adapter.sorted_map) = Len(adapter.examples.rows)
        /\ Range(adapter.sorted_map) = 0..(Len(adapter.examples.rows) - 1)
        /\ lastSort = None =>
              adapter.sorted_map = PyRange(Len(adapter.examples.rows))

\* An adapter of three rows after a descending sort: the row order is a
\* permutation of 0, 1, 2 other than the identity.
C33_Witness ==
    /\ adapter # None
    /\ lastSort # None /\ lastSort.order = DescendingOrder
    /\ Len(adapter.examples.rows) = 3
    /\ adapter.sorted_map # <<0, 1, 2>>
    /\ Range(adapter.sorted_map) = {0, 1, 2}
    /\ \E r \in 1..3 : isSpecial(adapter.examples.rows[r]
                                    [adapter.all_attrs[lastSort.column + 1].name])

(***************************************************************************)
(* Properties of the 'Send selections' button and the outputs (checked     *)
(* under Spec and SpecOne).                                                *)
(***************************************************************************)
\* C34 as stated: in every reachable state, 'Send selections' is enabled
\* only if the current tab has a non-empty selection and auto-commit is off;
\* in particular it is not enabled right after a new dataset arrives or
\* after Restore Order, when the active tab's selection is empty.
C34_SendOnlyWithSelection ==
    /\ sendEnabled =>
          /\ currentWidget(Self) # None
          /\ views[currentWidget(Self)].selected # {}
          /\ ~autoCommit
    /\ \A id \in Ids : \A d \in InputTables :
          ~dataset(Self, d, id).sendEnabled
    /\ currentWidget(Self) # None => ~btnResetSortClicked(Self).sendEnabled

\* The rows of the current tab's dataset that are selected: the selected
\* view rows mapped through the adapter's row order; no value when there is
\* no tab or no row is selected.
C35_SelectedRows ==
    IF currentWidget(Self) = None THEN None
    ELSE LET model == views[currentWidget(Self)].model
             chosen == {At(model.sorted_map, r) :
                           r \in views[currentWidget(Self)].selected}
         IN  IF chosen = {} THEN None
             ELSE [model.examples EXCEPT
                     !.rows = [k \in 1..Cardinality(chosen) |->
                                  At(model.examples.rows, SortedSeq(chosen)[k])]]

\* C35 as stated: with auto-commit on, in every state reached after an event
\* completes, the value last emitted on 'Selected Data' equals the active
\* tab's dataset rows that are currently selected (selected view rows mapped
\* through the current permutation); this holds also after a sort or a
\* Restore Order performed while rows are selected.
C35_AutoCommitTracksSelection ==
    autoCommit => selectedData = C35_SelectedRows

(***************************************************************************)
(* Properties of header clicks and of the recorded meta columns after     *)
(* "Restore Order of Examples" (checked under SpecOne)                     *)
(***************************************************************************)
\* The direction one run of the sort handler gives a click on column index:
\* ascending on another column than the last clicked one (or when none was
\* clicked since the adapter was built), the opposite of the previous click
\* otherwise.
C36_Order(v, index) ==
    IF index = v.oldSortingIndex
    THEN (IF v.oldSortingOrder = AscendingOrder
          THEN DescendingOrder ELSE AscendingOrder)
    ELSE AscendingOrder

\* C36 as stated: after any sequence of dataset arrivals, header clicks and
\* Restore Order actions, a single header click on column c runs the widget's
\* sort handler exactly once: the tab ends sorted ascending by c if c differs
\* from the tab's last clicked column (or no column was clicked since the
\* adapter was last built), and in the direction opposite to the previous
\* click on c otherwise.
C36_ClickSortsOnce ==
    currentWidget(Self) # None =>
        LET v == views[currentWidget(Self)]
        IN  \A index \in 0..(columnCount(v.model) - 1) :
               LET after == sectionClicked(Self, index, v.sortConnections)
                                .views[currentWidget(Self)]
               IN  /\ v.sortConnections = 1
                   /\ after.oldSortingIndex = index
                   /\ after.oldSortingOrder = C36_Order(v, index)
                   /\ after.model.sorted_map =
                         SortedMap(v.model, index, C36_Order(v, index))

\* C37 as stated: for every connection, after any sequence of operations
\* including repeated Restore Order actions, the recorded metadata column
\* list contains exactly the display-column indices whose role is Metadata,
\* each exactly once.
C37_MetaColumnsOnce ==
    \A id \in DOMAIN showMetas :
        LET model == views[id2table[id]].model
            metaColumns == {i \in 0..(Len(model.table_roles) - 1) :
                               At(model.table_roles, i) = Meta}
            columns == showMetas[id].columns
        IN  /\ Range(columns) = metaColumns
            /\ Len(columns) = Cardinality(metaColumns)

(***************************************************************************)
(* The bar colour and its persisted setting (checked under SpecColors)     *)
(***************************************************************************)
\* C38 as stated: after construction with persisted settings loaded, and
\* after every accepted color dialog, the bar color actually used for
\* rendering (distColor) has the same red, green and blue channels as the
\* persisted distColorRgb tuple.
C38_BarColorIsPersistedColor ==
    /\ distColor.red = distColorRgb[1]
    /\ distColor.green = distColorRgb[2]
    /\ distColor.blue = distColorRgb[3]

\* The part of C38 about construction alone: in every step that closes the
\* widget and constructs it again with its settings the property holds
\* afterwards.
C38_AfterConstruction ==
    [][Reopen => C38_BarColorIsPersistedColor']_vars

(***************************************************************************)
(* The report (checked under Spec)                                         *)
(***************************************************************************)
\* C39 as stated: requesting a report (sendReport) in any reachable state,
\* including when no dataset is connected and there is no active tab,
\* completes without raising a lookup failure.
C39_ReportCompletes == sendReport(Self).raised = None

\* The part of C39 about a widget with a current tab: the report holds the
\* tab's dataset and its view.
C39_ReportWithTab ==
    currentWidget(Self) # None =>
        sendReport(Self) =
            [report |-> <<data[table2id[currentWidget(Self)]],
                          currentWidget(Self)>>,
             raised |-> None]
============================================================================
